---- MODULE Spec2Model ----
(***************************************************************************)
(* Model of the prediction core of preload-ng: the entity graph (exes,     *)
(* maps, exemaps, markov edges), the markov pair model, the spy's          *)
(* scan/update pipeline, the state file and the readahead scheduler.       *)
(*                                                                         *)
(* Objects live in heaps (sequences indexed by object id, 0 is NULL); a    *)
(* freed object stays in its heap as a scrubbed record with freed = TRUE,  *)
(* so a reference that outlives its object is visible.  Every C function   *)
(* that mutates the model is an operator from a store record S (the        *)
(* singleton `state` plus the heaps) to the store after the call.          *)
(* g_return_if_fail / g_return_val_if_fail are modelled as the default     *)
(* GLib build does them: the check is made and the function returns.       *)
(* Doubles are modelled as exact rationals <<num, den>>.                   *)
(***************************************************************************)
EXTENDS Integers, Sequences, FiniteSets, TLC

VARIABLES
  time,                       \* state->time
  last_running_timestamp,     \* state->last_running_timestamp
  last_accounting_timestamp,  \* state->last_accounting_timestamp
  exeHeap,                    \* every preload_exe_t ever allocated
  markovHeap,                 \* every preload_markov_t ever allocated
  mapHeap,                    \* every preload_map_t ever allocated
  exes,                       \* state->exes: ids of the registered exes
  maps,                       \* state->maps: ids in the map hash set
  maps_arr,                   \* state->maps_arr
  exe_seq,                    \* state->exe_seq
  map_seq,                    \* state->map_seq
  bad_exes,                   \* state->bad_exes: set of paths
  running_exes,               \* state->running_exes
  dirty,                      \* state->dirty
  model_dirty,                \* state->model_dirty
  state_changed_exes,         \* spy.c static list
  new_exes,                   \* spy.c static table: paths queued by the scan
  pc,                         \* position of the harness / event loop
  cycle,                      \* conf->model.cycle
  statefile,                  \* content of the state file on disk
  aux,                        \* bookkeeping of the API harnesses (history)
  ra                          \* the readahead scheduler's locals

storeVars == <<time, last_running_timestamp, last_accounting_timestamp,
               exeHeap, markovHeap, mapHeap, exes, maps, maps_arr,
               exe_seq, map_seq>>
daemonVars == <<bad_exes, running_exes, dirty, model_dirty,
                state_changed_exes, new_exes, cycle, statefile>>
vars == <<storeVars, daemonVars, pc, aux, ra>>

(***************************************************************************)
(* Bounds of the model.                                                    *)
(***************************************************************************)
MaxTime == 4
MaxExeObjs == 3
MaxMarkovObjs == 2
MaxMapObjs == 3
MaxRefs == 2
MaxFiles == 2
MaxStoreTime == 2
MaxLoads == 1
MaxFileTime == 6
MaxProcs == 2
MaxRestarts == 1
MaxDaemonTime == 6

Paths == {"/bin/a", "/bin/b", "/bin/c"}
NULL == 0

(***************************************************************************)
(* Sequence helpers (GPtrArray, GSList).                                   *)
(***************************************************************************)
Range(s) == {s[i] : i \in DOMAIN s}

Count(s, x) == Cardinality({i \in DOMAIN s : s[i] = x})

FirstIndex(s, x) == CHOOSE i \in DOMAIN s : s[i] = x /\ \A j \in 1..(i-1) : s[j] # x

\* g_ptr_array_remove: drop the first occurrence, keep the order.
PtrArrayRemove(s, x) ==
  IF x \notin Range(s) THEN s
  ELSE LET k == FirstIndex(s, x)
       IN [i \in 1..(Len(s)-1) |-> IF i < k THEN s[i] ELSE s[i+1]]

\* g_ptr_array_remove_fast: the last element takes the place of the first occurrence.
PtrArrayRemoveFast(s, x) ==
  IF x \notin Range(s) THEN s
  ELSE LET k == FirstIndex(s, x)
       IN [i \in 1..(Len(s)-1) |-> IF i = k THEN s[Len(s)] ELSE s[i]]

\* The ids of a set in ascending order (the order the model walks a hash table in).
RECURSIVE SetToSeq(_)
SetToSeq(S) ==
  IF S = {} THEN <<>>
  ELSE LET m == CHOOSE x \in S : \A y \in S : x <= y
       IN <<m>> \o SetToSeq(S \ {m})

\* F applied to the value of v: v is evaluated once, as a C statement evaluates
\* the value it passes on.
Bind(v, F(_)) == CHOOSE r \in {F(x) : x \in {v}} : TRUE

(***************************************************************************)
(* Rationals standing for the doubles of the model.                        *)
(***************************************************************************)
Abs(n) == IF n < 0 THEN -n ELSE n

RECURSIVE GCD(_, _)
GCD(a, b) == IF b = 0 THEN a ELSE GCD(b, a % b)

Rat(n, d) ==
  LET g == GCD(Abs(n), Abs(d))
      s == IF d < 0 THEN -1 ELSE 1
  IN IF n = 0 THEN <<0, 1>> ELSE <<s * (n \div g), s * (d \div g)>>

RatZero == <<0, 1>>
RatOne == <<1, 1>>

(***************************************************************************)
(* The store: the singleton `state` and the three heaps.                   *)
(***************************************************************************)
Cur ==
  [time |-> time,
   last_running_timestamp |-> last_running_timestamp,
   last_accounting_timestamp |-> last_accounting_timestamp,
   exeHeap |-> exeHeap, markovHeap |-> markovHeap, mapHeap |-> mapHeap,
   exes |-> exes, maps |-> maps, maps_arr |-> maps_arr,
   exe_seq |-> exe_seq, map_seq |-> map_seq]

Assign(S) ==
  /\ time' = S.time
  /\ last_running_timestamp' = S.last_running_timestamp
  /\ last_accounting_timestamp' = S.last_accounting_timestamp
  /\ exeHeap' = S.exeHeap
  /\ markovHeap' = S.markovHeap
  /\ mapHeap' = S.mapHeap
  /\ exes' = S.exes
  /\ maps' = S.maps
  /\ maps_arr' = S.maps_arr
  /\ exe_seq' = S.exe_seq
  /\ map_seq' = S.map_seq

StoreIs(S) ==
  /\ time = S.time
  /\ last_running_timestamp = S.last_running_timestamp
  /\ last_accounting_timestamp = S.last_accounting_timestamp
  /\ exeHeap = S.exeHeap
  /\ markovHeap = S.markovHeap
  /\ mapHeap = S.mapHeap
  /\ exes = S.exes
  /\ maps = S.maps
  /\ maps_arr = S.maps_arr
  /\ exe_seq = S.exe_seq
  /\ map_seq = S.map_seq

\* memset (state, 0, ...) and the empty tables of preload_state_load.
EmptyStore ==
  [time |-> 0, last_running_timestamp |-> 0, last_accounting_timestamp |-> 0,
   exeHeap |-> <<>>, markovHeap |-> <<>>, mapHeap |-> <<>>,
   exes |-> {}, maps |-> {}, maps_arr |-> <<>>,
   exe_seq |-> 0, map_seq |-> 0]

ZeroWeight == [i \in 0..3 |-> [j \in 0..3 |-> 0]]
ZeroTtl == [i \in 0..3 |-> RatZero]

FreedExe ==
  [path |-> "", seq |-> 0, time |-> 0, update_time |-> 0,
   running_timestamp |-> 0, change_timestamp |-> 0,
   exemaps |-> <<>>, markovs |-> <<>>, freed |-> TRUE]

FreedMarkov ==
  [a |-> NULL, b |-> NULL, time |-> 0, state |-> 0, change_timestamp |-> 0,
   weight |-> ZeroWeight, time_to_leave |-> ZeroTtl, freed |-> TRUE]

FreedMap ==
  [path |-> "", offset |-> 0, length |-> 0, refcount |-> 0, seq |-> 0,
   update_time |-> 0, freed |-> TRUE]

LiveExes(S) == {e \in DOMAIN S.exeHeap : ~S.exeHeap[e].freed}
LiveMarkovs(S) == {m \in DOMAIN S.markovHeap : ~S.markovHeap[m].freed}
LiveMaps(S) == {m \in DOMAIN S.mapHeap : ~S.mapHeap[m].freed}

(***************************************************************************)
(* map.c                                                                   *)
(***************************************************************************)
\* preload_map_equal on two live maps: equality of the (path, offset, length) triple.
preload_map_equal(S, m1, m2) ==
  \/ m1 = m2
  \/ /\ S.mapHeap[m1].offset = S.mapHeap[m2].offset
     /\ S.mapHeap[m1].length = S.mapHeap[m2].length
     /\ S.mapHeap[m1].path = S.mapHeap[m2].path

\* g_hash_table_lookup (state->maps, map): the stored map equal to m, or NULL.
MapsLookup(S, m) ==
  IF \E k \in S.maps : preload_map_equal(S, k, m)
  THEN CHOOSE k \in S.maps : preload_map_equal(S, k, m)
  ELSE NULL

preload_map_new(S, path, offset, length) ==
  [S EXCEPT !.mapHeap = Append(@,
     [path |-> path, offset |-> offset, length |-> length, refcount |-> 0,
      seq |-> 0, update_time |-> S.time, freed |-> FALSE])]

preload_state_register_map(S, m) ==
  IF MapsLookup(S, m) # NULL THEN S
  ELSE [S EXCEPT !.map_seq = @ + 1,
                 !.mapHeap[m].seq = S.map_seq + 1,
                 !.maps = @ \cup {m},
                 !.maps_arr = Append(@, m)]

preload_state_unregister_map(S, m) ==
  IF MapsLookup(S, m) = NULL THEN S
  ELSE [S EXCEPT !.maps_arr = PtrArrayRemove(@, m),
                 !.maps = @ \ {MapsLookup(S, m)}]

preload_map_free(S, m) ==
  IF S.mapHeap[m].refcount # 0 THEN S
  ELSE [S EXCEPT !.mapHeap[m] = FreedMap]

preload_map_ref(S, m) ==
  IF m = NULL THEN S
  ELSE LET S1 == IF S.mapHeap[m].refcount = 0
                 THEN preload_state_register_map(S, m) ELSE S
       IN [S1 EXCEPT !.mapHeap[m].refcount = @ + 1]

preload_map_unref(S, m) ==
  IF m = NULL \/ S.mapHeap[m].refcount <= 0 THEN S
  ELSE LET S1 == [S EXCEPT !.mapHeap[m].refcount = @ - 1]
       IN IF S1.mapHeap[m].refcount = 0
          THEN preload_map_free(preload_state_unregister_map(S1, m), m)
          ELSE S1

(***************************************************************************)
(* exe.c: exemaps and exes                                                 *)
(***************************************************************************)
exe_is_running(S, e) ==
  S.exeHeap[e].running_timestamp >= S.last_running_timestamp

\* preload_exemap_new followed by g_ptr_array_add (exe->exemaps, exemap).
preload_exemap_new_from_exe(S, e, m, prob) ==
  LET S1 == preload_map_ref(S, m)
  IN [S1 EXCEPT !.exeHeap[e].exemaps = Append(@, [map |-> m, prob |-> prob])]

\* g_ptr_array_foreach (exemaps, preload_exemap_free): each exemap drops its map reference.
RECURSIVE FreeExemaps(_, _)
FreeExemaps(S, xs) ==
  IF xs = <<>> THEN S
  ELSE Bind(preload_map_unref(S, Head(xs).map), LAMBDA S1 : FreeExemaps(S1, Tail(xs)))

\* preload_exe_new: the object is allocated, not yet registered.
preload_exe_new(S, path, running) ==
  [S EXCEPT !.exeHeap = Append(@,
     [path |-> path, seq |-> 0, time |-> 0,
      update_time |-> IF running THEN S.last_running_timestamp ELSE -1,
      running_timestamp |-> IF running THEN S.last_running_timestamp ELSE -1,
      change_timestamp |-> S.time,
      exemaps |-> <<>>, markovs |-> <<>>, freed |-> FALSE])]

\* g_hash_table_lookup (state->exes, path)
ExesLookup(S, path) ==
  IF \E e \in S.exes : S.exeHeap[e].path = path
  THEN CHOOSE e \in S.exes : S.exeHeap[e].path = path
  ELSE NULL

(***************************************************************************)
(* markov.c                                                                *)
(***************************************************************************)
markov_compute_state(S, a, b) ==
  (IF exe_is_running(S, a) THEN 1 ELSE 0) + (IF exe_is_running(S, b) THEN 2 ELSE 0)

XorBit(s, bit) == IF (s \div bit) % 2 = 1 THEN s - bit ELSE s + bit

\* time_to_leave[old] += ((time - change_timestamp) - time_to_leave[old]) / weight[old][old]
DwellMean(ttl, dwell, w) == Rat(ttl[1] * (w - 1) + dwell * ttl[2], ttl[2] * w)

\* A variant that counts the departure but not the arrival.
StateChangedRec_one_count(mk, now, new_state) ==
  IF mk.change_timestamp = now THEN mk
  ELSE IF mk.state = new_state THEN mk
  ELSE [mk EXCEPT !.weight[mk.state][mk.state] = @ + 1,
                  !.state = new_state,
                  !.change_timestamp = now]

\* preload_markov_state_changed on edge record mk, with new_state already computed.
StateChangedRec(mk, now, new_state) ==
  IF mk.change_timestamp = now THEN mk
  ELSE IF mk.state = new_state THEN mk
  ELSE LET old == mk.state
           w1 == [mk.weight EXCEPT ![old][old] = @ + 1]
       IN [mk EXCEPT
             !.weight = [w1 EXCEPT ![old][new_state] = @ + 1],
             !.time_to_leave[old] =
                 DwellMean(@, now - mk.change_timestamp, w1[old][old]),
             !.state = new_state,
             !.change_timestamp = now]

preload_markov_state_changed(S, m) ==
  [S EXCEPT !.markovHeap[m] =
     StateChangedRec(@, S.time, markov_compute_state(S, @.a, @.b))]

\* A variant that looks at a's change_timestamp only.
BirthTimestamp_first(act, bct, now) ==
  IF act > 0 /\ bct > 0 /\ act < now THEN act ELSE now

\* The change_timestamp preload_markov_new picks before the birth transition.
BirthTimestamp(act, bct, now) ==
  LET c0 == now
      c1 == IF act > 0 /\ bct > 0 /\ act < now THEN act ELSE c0
  IN IF act > 0 /\ bct > 0 /\ bct < now /\ bct > c1 THEN bct ELSE c1

\* The state preload_markov_new stores before the birth transition.
BirthState(act, bct, ct, computed) ==
  LET s1 == IF act > 0 /\ bct > 0 /\ act > ct THEN XorBit(computed, 1) ELSE computed
  IN IF act > 0 /\ bct > 0 /\ bct > ct THEN XorBit(s1, 2) ELSE s1

\* preload_markov_new (a, b, initialize).  With initialize = FALSE every field but
\* a and b is left as g_malloc returned it: `junk` is that content.
preload_markov_new(S, a, b, initialize, junk) ==
  IF a = NULL \/ b = NULL \/ a = b THEN S
  ELSE
    LET id == Len(S.markovHeap) + 1
        act == S.exeHeap[a].change_timestamp
        bct == S.exeHeap[b].change_timestamp
        ct == BirthTimestamp(act, bct, S.time)
        born == [a |-> a, b |-> b, time |-> 0,
                 state |-> BirthState(act, bct, ct, markov_compute_state(S, a, b)),
                 change_timestamp |-> ct,
                 weight |-> ZeroWeight, time_to_leave |-> ZeroTtl, freed |-> FALSE]
        mk == IF initialize
              THEN StateChangedRec(born, S.time, markov_compute_state(S, a, b))
              ELSE [junk EXCEPT !.a = a, !.b = b, !.freed = FALSE]
    IN [S EXCEPT !.markovHeap = Append(@, mk),
                 !.exeHeap[a].markovs = Append(@, id),
                 !.exeHeap[b].markovs = Append(@, id)]

markov_other_exe(S, m, e) ==
  IF S.markovHeap[m].a = e THEN S.markovHeap[m].b ELSE S.markovHeap[m].a

\* preload_markov_free (markov, from); from = NULL removes the edge from both lists.
preload_markov_free(S, m, from) ==
  IF m = NULL THEN S
  ELSE
    LET S1 == IF from # NULL
              THEN [S EXCEPT !.exeHeap[markov_other_exe(S, m, from)].markovs =
                               PtrArrayRemoveFast(@, m)]
              ELSE LET Sa == [S EXCEPT !.exeHeap[S.markovHeap[m].a].markovs =
                                         PtrArrayRemoveFast(@, m)]
                   IN [Sa EXCEPT !.exeHeap[S.markovHeap[m].b].markovs =
                                         PtrArrayRemoveFast(@, m)]
    IN [S1 EXCEPT !.markovHeap[m] = FreedMarkov]

\* g_ptr_array_foreach (exe->markovs, preload_markov_free, exe)
RECURSIVE FreeMarkovs(_, _, _)
FreeMarkovs(S, ms, e) ==
  IF ms = <<>> THEN S
  ELSE Bind(preload_markov_free(S, Head(ms), e), LAMBDA S1 : FreeMarkovs(S1, Tail(ms), e))

\* A variant of preload_exe_free that does not release the edges with the exe.
preload_exe_free_keeps_edges(S, e) ==
  IF e = NULL THEN S
  ELSE [FreeExemaps(S, S.exeHeap[e].exemaps) EXCEPT !.exeHeap[e] = FreedExe]

\* preload_exe_free: exemaps, then markovs, then the object itself.
preload_exe_free(S, e) ==
  IF e = NULL THEN S
  ELSE Bind(FreeExemaps(S, S.exeHeap[e].exemaps), LAMBDA S1 :
         [FreeMarkovs(S1, S1.exeHeap[e].markovs, e) EXCEPT !.exeHeap[e] = FreedExe])

\* A registration that creates no edge.
CreateMarkovs_none(S, olds, e) == S

\* g_hash_table_foreach (state->exes, shift_preload_markov_new, exe)
RECURSIVE CreateMarkovs(_, _, _)
CreateMarkovs(S, olds, e) ==
  IF olds = <<>> THEN S
  ELSE Bind(IF Head(olds) # e
            THEN preload_markov_new(S, Head(olds), e, TRUE, FreedMarkov)
            ELSE S,
            LAMBDA S1 : CreateMarkovs(S1, Tail(olds), e))

\* preload_state_register_exe without its g_return_if_fail on the lookup.
preload_state_register_exe_no_lookup(S, e, create_markovs) ==
  IF e = NULL THEN S
  ELSE LET S1 == [S EXCEPT !.exe_seq = @ + 1, !.exeHeap[e].seq = S.exe_seq + 1]
           S2 == IF create_markovs
                 THEN CreateMarkovs(S1, SetToSeq(S1.exes), e) ELSE S1
       IN [S2 EXCEPT !.exes = @ \cup {e}]

preload_state_register_exe(S, e, create_markovs) ==
  IF e = NULL \/ ExesLookup(S, S.exeHeap[e].path) # NULL THEN S
  ELSE LET S1 == [S EXCEPT !.exe_seq = @ + 1, !.exeHeap[e].seq = S.exe_seq + 1]
           S2 == IF create_markovs
                 THEN CreateMarkovs(S1, SetToSeq(S1.exes), e) ELSE S1
       IN [S2 EXCEPT !.exes = @ \cup {e}]

preload_state_unregister_exe(S, e) ==
  IF e = NULL \/ ExesLookup(S, S.exeHeap[e].path) = NULL THEN S
  ELSE Bind([S EXCEPT !.exes = @ \ {ExesLookup(S, S.exeHeap[e].path)}],
            LAMBDA S1 : preload_exe_free(S1, e))

(***************************************************************************)
(* Values of the variables a specification does not use.                  *)
(***************************************************************************)
IdleDaemon ==
  /\ bad_exes = {}
  /\ running_exes = <<>>
  /\ dirty = FALSE
  /\ model_dirty = FALSE
  /\ state_changed_exes = <<>>
  /\ new_exes = {}
  /\ cycle = 0
  /\ statefile = <<>>

\* The state the unit tests start from (test_init_state): a clock that has run, no objects.
TestStore(now, lrt) ==
  [EmptyStore EXCEPT !.time = now, !.last_running_timestamp = lrt]

(***************************************************************************)
(* SpecGraph: the registration API driven in any order (exes and edges).   *)
(***************************************************************************)
GraphInit ==
  /\ StoreIs(TestStore(2, 1))
  /\ IdleDaemon /\ pc = "graph" /\ aux = <<>> /\ ra = <<>>

\* The paths already given to an object, and the first path not yet used: a new
\* object takes one of these (which unused path it takes makes no difference).
UsedPaths == {exeHeap[e].path : e \in LiveExes(Cur)}
NextPath == IF Paths \subseteq UsedPaths THEN {}
            ELSE {CHOOSE p \in Paths \ UsedPaths : TRUE}

\* preload_exe_new followed by preload_state_register_exe, as read_exe and
\* new_exe_callback do; a path that is already registered leaves the object unregistered.
GraphRegister ==
  \E path \in UsedPaths \cup NextPath, create_markovs \in BOOLEAN :
    /\ Len(exeHeap) < MaxExeObjs
    /\ Len(markovHeap) + Cardinality(exes) <= MaxMarkovObjs
    /\ Assign(preload_state_register_exe(preload_exe_new(Cur, path, FALSE),
                                         Len(exeHeap) + 1, create_markovs))

GraphMarkovNew ==
  \E a \in LiveExes(Cur), b \in LiveExes(Cur) :
    /\ Len(markovHeap) < MaxMarkovObjs
    /\ Assign(preload_markov_new(Cur, a, b, TRUE, FreedMarkov))

\* A caller outside preload_exe_free passes from = NULL (as the unit tests do).
GraphMarkovFree ==
  \E m \in LiveMarkovs(Cur) :
    Assign(preload_markov_free(Cur, m, NULL))

GraphUnregister ==
  \E e \in LiveExes(Cur) :
    Assign(preload_state_unregister_exe(Cur, e))

GraphNext ==
  \/ GraphRegister /\ UNCHANGED <<daemonVars, pc, aux, ra>>
  \/ GraphMarkovNew /\ UNCHANGED <<daemonVars, pc, aux, ra>>
  \/ GraphMarkovFree /\ UNCHANGED <<daemonVars, pc, aux, ra>>
  \/ GraphUnregister /\ UNCHANGED <<daemonVars, pc, aux, ra>>

SpecGraph == GraphInit /\ [][GraphNext]_vars

(* C1: for every registered exe e, every edge in e.markovs is a live edge    *)
(* with e as its a or b endpoint, occurs in e.markovs exactly once and       *)
(* occurs exactly once in the markovs list of its other endpoint; no list of *)
(* a live exe holds a freed edge.                                            *)
EdgeListsConsistent ==
  /\ \A e \in exes : \A m \in Range(exeHeap[e].markovs) :
       LET other == IF markovHeap[m].a = e THEN markovHeap[m].b ELSE markovHeap[m].a
       IN /\ ~markovHeap[m].freed
          /\ markovHeap[m].a = e \/ markovHeap[m].b = e
          /\ other # e
          /\ Count(exeHeap[e].markovs, m) = 1
          /\ ~exeHeap[other].freed
          /\ Count(exeHeap[other].markovs, m) = 1
  /\ \A e \in LiveExes(Cur) : \A m \in Range(exeHeap[e].markovs) :
       ~markovHeap[m].freed

\* An exe was unregistered, its edges died with it, and a survivor still holds an edge.
EdgeListsWitness ==
  /\ \E e \in DOMAIN exeHeap : exeHeap[e].freed
  /\ \E m \in DOMAIN markovHeap : markovHeap[m].freed
  /\ \E e \in exes : exeHeap[e].markovs # <<>>

(***************************************************************************)
(* SpecMarkov: the markov API driven in any order on two registered exes:  *)
(* clock advances, running-bit flips, exe_changed_callback, edge birth     *)
(* (initialize = TRUE, either assignment to a and b) and direct calls of   *)
(* preload_markov_state_changed.                                           *)
(***************************************************************************)
\* read_exe: preload_exe_new (path, FALSE, NULL), change_timestamp = -1, registered.
ReadExeStore(S, path, exe_time, update_time) ==
  LET S1 == preload_exe_new(S, path, FALSE)
      e == Len(S1.exeHeap)
  IN IF ExesLookup(S, path) # NULL
     THEN preload_exe_free([S1 EXCEPT !.exeHeap[e].change_timestamp = -1], e)
     ELSE preload_state_register_exe(
            [S1 EXCEPT !.exeHeap[e].change_timestamp = -1,
                       !.exeHeap[e].update_time = update_time,
                       !.exeHeap[e].time = exe_time], e, FALSE)

ExeKinds == {"running", "idle", "loaded"}

MakeExe(S, path, kind) ==
  IF kind = "loaded" THEN ReadExeStore(S, path, 0, -1)
  ELSE LET S1 == preload_exe_new(S, path, kind = "running")
       IN preload_state_register_exe(S1, Len(S1.exeHeap), FALSE)

NoCall == [op |-> "none", m |-> NULL, act |-> 0, bct |-> 0, now |-> 0,
           computed |-> 0, chosen |-> 0, state0 |-> 0]

MarkovInit ==
  /\ \E ka \in BOOLEAN, kb \in BOOLEAN :
       StoreIs(MakeExe(MakeExe(TestStore(0, 0), "/bin/a", IF ka THEN "running" ELSE "idle"),
                       "/bin/b", IF kb THEN "running" ELSE "idle"))
  /\ IdleDaemon /\ pc = "markov" /\ aux = NoCall /\ ra = <<>>

MarkovAdvance ==
  /\ time < MaxTime
  /\ time' = time + 1
  /\ aux' = NoCall
  /\ UNCHANGED <<last_running_timestamp, last_accounting_timestamp, exeHeap,
                 markovHeap, mapHeap, exes, maps, maps_arr, exe_seq, map_seq>>

\* The running bit of one exe flips (what a scan does to running_timestamp).
MarkovFlip ==
  \E e \in exes :
    /\ exeHeap' = [exeHeap EXCEPT ![e].running_timestamp =
                     IF exe_is_running(Cur, e) THEN -1 ELSE last_running_timestamp]
    /\ aux' = NoCall
    /\ UNCHANGED <<time, last_running_timestamp, last_accounting_timestamp,
                   markovHeap, mapHeap, exes, maps, maps_arr, exe_seq, map_seq>>

\* g_ptr_array_foreach (exe->markovs, preload_markov_state_changed, NULL)
RECURSIVE StateChangedAll(_, _)
StateChangedAll(S, ms) ==
  IF ms = <<>> THEN S
  ELSE Bind(preload_markov_state_changed(S, Head(ms)),
            LAMBDA S1 : StateChangedAll(S1, Tail(ms)))

\* A variant that stamps the exe and leaves its edges alone.
exe_changed_callback_no_edges(S, e) ==
  [S EXCEPT !.exeHeap[e].change_timestamp = S.time]

\* spy.c exe_changed_callback
exe_changed_callback(S, e) ==
  Bind([S EXCEPT !.exeHeap[e].change_timestamp = S.time],
       LAMBDA S1 : StateChangedAll(S1, S1.exeHeap[e].markovs))

MarkovExeChanged ==
  \E e \in exes :
    /\ Assign(exe_changed_callback(Cur, e))
    /\ aux' = NoCall

MarkovStateChanged ==
  \E m \in LiveMarkovs(Cur) :
    /\ Assign(preload_markov_state_changed(Cur, m))
    /\ aux' = NoCall

\* preload_markov_new (a, b, TRUE) for a pair that has no edge yet; aux keeps
\* what the call saw.
MarkovBirth ==
  \E a \in exes, b \in exes :
    /\ a # b
    /\ LiveMarkovs(Cur) = {}
    /\ Assign(preload_markov_new(Cur, a, b, TRUE, FreedMarkov))
    /\ aux' = [op |-> "markov_new", m |-> Len(markovHeap) + 1,
               act |-> exeHeap[a].change_timestamp,
               bct |-> exeHeap[b].change_timestamp,
               now |-> time,
               computed |-> markov_compute_state(Cur, a, b),
               chosen |-> BirthTimestamp(exeHeap[a].change_timestamp,
                                         exeHeap[b].change_timestamp, time),
               state0 |-> BirthState(exeHeap[a].change_timestamp,
                                     exeHeap[b].change_timestamp,
                                     BirthTimestamp(exeHeap[a].change_timestamp,
                                                    exeHeap[b].change_timestamp, time),
                                     markov_compute_state(Cur, a, b))]

MarkovNext ==
  \/ MarkovAdvance /\ UNCHANGED <<daemonVars, pc, ra>>
  \/ MarkovFlip /\ UNCHANGED <<daemonVars, pc, ra>>
  \/ MarkovStateChanged /\ UNCHANGED <<daemonVars, pc, ra>>
  \/ MarkovBirth /\ UNCHANGED <<daemonVars, pc, ra>>

SpecMarkov == MarkovInit /\ [][MarkovNext]_vars

(***************************************************************************)
(* SpecBirth: two registered exes (fresh or loaded) whose running bits and *)
(* change_timestamps move with the clock, then one preload_markov_new      *)
(* (a, b, TRUE) in either assignment.                                      *)
(***************************************************************************)
BirthInit ==
  /\ \E ka \in ExeKinds, kb \in ExeKinds :
       StoreIs(MakeExe(MakeExe(TestStore(0, 0), "/bin/a", ka), "/bin/b", kb))
  /\ IdleDaemon /\ pc = "birth" /\ aux = NoCall /\ ra = <<>>

BirthNext ==
  \/ pc = "birth" /\ MarkovAdvance /\ UNCHANGED <<daemonVars, pc, ra>>
  \/ pc = "birth" /\ MarkovFlip /\ UNCHANGED <<daemonVars, pc, ra>>
  \/ pc = "birth" /\ MarkovExeChanged /\ UNCHANGED <<daemonVars, pc, ra>>
  \/ pc = "birth" /\ MarkovBirth /\ pc' = "born" /\ UNCHANGED <<daemonVars, ra>>

SpecBirth == BirthInit /\ [][BirthNext]_vars

RowSum(w, i) == w[i][0] + w[i][1] + w[i][2] + w[i][3] - w[i][i]

(* C4: for every edge created with initialize = TRUE, after any sequence of  *)
(* state_changed calls, flips and clock advances, weight[i][i] equals the    *)
(* sum of weight[i][j] over j # i, for each state i.                         *)
WeightDiagonalIsRowSum ==
  \A m \in LiveMarkovs(Cur) : \A i \in 0..3 :
    markovHeap[m].weight[i][i] = RowSum(markovHeap[m].weight, i)

\* An edge has left one state at least twice.
WeightDiagonalWitness ==
  \E m \in LiveMarkovs(Cur) : \E i \in 0..3 :
    /\ markovHeap[m].weight[i][i] >= 2
    /\ \E j \in 0..3 : j # i /\ markovHeap[m].weight[i][j] >= 1

Born == aux.op = "markov_new"
Settled == Born /\ 0 < aux.act /\ aux.act < aux.now /\ 0 < aux.bct /\ aux.bct < aux.now
RunningBits(a, b) ==
  (IF exeHeap[a].running_timestamp >= last_running_timestamp THEN 1 ELSE 0)
  + (IF exeHeap[b].running_timestamp >= last_running_timestamp THEN 2 ELSE 0)
MaxOf(x, y) == IF x > y THEN x ELSE y

(* C9: preload_markov_new (a, b, TRUE) with both endpoints' change_timestamp *)
(* positive and strictly below state.time yields an edge whose state is the  *)
(* bit layout of the current running bits, whose change_timestamp is         *)
(* max(a.change_timestamp, b.change_timestamp), whose time is 0 and whose    *)
(* weight and time_to_leave entries are all zero.                            *)
BirthOfSettledEndpoints ==
  Settled =>
    LET mk == markovHeap[aux.m]
    IN /\ mk.state = RunningBits(mk.a, mk.b)
       /\ mk.change_timestamp = MaxOf(aux.act, aux.bct)
       /\ mk.time = 0
       /\ \A i \in 0..3 : mk.time_to_leave[i] = <<0, 1>>
       /\ \A i \in 0..3 : \A j \in 0..3 : mk.weight[i][j] = 0

\* An edge born from endpoints that last changed at different past instants, the
\* later one being b, with an endpoint running.
BirthOfSettledWitness ==
  /\ Settled
  /\ aux.act < aux.bct
  /\ markovHeap[aux.m].state # 0
  /\ pc = "born"

XorIf(c, s, bit) == IF c THEN XorBit(s, bit) ELSE s

(* C10: when both endpoints have change_timestamp > 0, the timestamp chosen  *)
(* before the birth transition is the later of those endpoint                *)
(* change_timestamps that precede state.time (state.time when none does),    *)
(* for either assignment of the two exes to a and b, and exactly the         *)
(* endpoints whose change_timestamp strictly exceeds the chosen timestamp    *)
(* have their running bit XORed out of the initial state.                    *)
BirthTimestampIsLaterPreceding ==
  (Born /\ aux.act > 0 /\ aux.bct > 0) =>
    LET prec == {c \in {aux.act, aux.bct} : c < aux.now}
        later == IF prec = {} THEN aux.now
                 ELSE CHOOSE c \in prec : \A d \in prec : d <= c
    IN /\ aux.chosen = later
       /\ aux.state0 = XorIf(aux.bct > later, XorIf(aux.act > later, aux.computed, 1), 2)

(***************************************************************************)
(* SpecMaps: preload_map_new, preload_map_ref and preload_map_unref called *)
(* in any order, map objects with equal triples included.                  *)
(***************************************************************************)
MapPaths == {"/lib/x"}
MapOffsets == {0, 1}
MapLengths == {1}

MapsInit ==
  /\ StoreIs(TestStore(1, 1))
  /\ IdleDaemon /\ pc = "maps" /\ aux = <<>> /\ ra = <<>>

MapsNew ==
  \E path \in MapPaths, offset \in MapOffsets, length \in MapLengths :
    /\ Len(mapHeap) < MaxMapObjs
    /\ Assign(preload_map_new(Cur, path, offset, length))

MapsRef ==
  \E m \in LiveMaps(Cur) :
    /\ mapHeap[m].refcount < MaxRefs
    /\ Assign(preload_map_ref(Cur, m))

MapsUnref ==
  \E m \in LiveMaps(Cur) : Assign(preload_map_unref(Cur, m))

MapsNext ==
  \/ MapsNew /\ UNCHANGED <<daemonVars, pc, aux, ra>>
  \/ MapsRef /\ UNCHANGED <<daemonVars, pc, aux, ra>>
  \/ MapsUnref /\ UNCHANGED <<daemonVars, pc, aux, ra>>

SpecMaps == MapsInit /\ [][MapsNext]_vars

(* C3: after any sequence of preload_map_new, preload_map_ref and            *)
(* preload_map_unref (a ref of a second object with an equal triple          *)
(* included), a map is in the store exactly when its refcount is positive,   *)
(* no refcount is negative, and no two stored maps have equal                *)
(* (path, offset, length).                                                   *)
MapStoredIffReferenced ==
  /\ \A m \in LiveMaps(Cur) :
       /\ mapHeap[m].refcount >= 0
       /\ (m \in maps) <=> (mapHeap[m].refcount > 0)
  /\ \A m \in maps : ~mapHeap[m].freed
  /\ \A m1 \in maps : \A m2 \in maps :
       (m1 # m2) =>
         ~(/\ mapHeap[m1].path = mapHeap[m2].path
           /\ mapHeap[m1].offset = mapHeap[m2].offset
           /\ mapHeap[m1].length = mapHeap[m2].length)

(***************************************************************************)
(* readahead.c.  SpecReadahead: preload_readahead on an array of distinct  *)
(* maps, under each value of conf->system.sortstrategy.                    *)
(***************************************************************************)
RaPaths == {"/lib/x", "/lib/y"}
RaOffsets == {0, 1}
RaLengths == {1, 3}
SortStrategies == {"SORT_NONE", "SORT_PATH", "SORT_INODE", "SORT_BLOCK", "invalid"}

\* strcmp on the two paths, and st_ino of each file (in the opposite order).
PathRank(path) == IF path = "/lib/x" THEN 1 ELSE 2
Inode(path) == IF path = "/lib/x" THEN 7 ELSE 5

Sign(x, y) == IF x > y THEN 1 ELSE IF x < y THEN -1 ELSE 0

map_path_compare(a, b) ==
  IF Sign(PathRank(a.path), PathRank(b.path)) # 0
  THEN Sign(PathRank(a.path), PathRank(b.path))
  ELSE IF Sign(a.offset, b.offset) # 0 THEN Sign(a.offset, b.offset)
  ELSE Sign(b.length, a.length)

map_block_compare(a, b) ==
  IF Sign(a.block, b.block) # 0 THEN Sign(a.block, b.block)
  ELSE map_path_compare(a, b)

\* Insert x into the sorted sequence s; byBlock selects the comparison.
RECURSIVE SortedInsert(_, _, _)
SortedInsert(s, x, byBlock) ==
  IF s = <<>> THEN <<x>>
  ELSE IF (IF byBlock THEN map_block_compare(x, Head(s))
                      ELSE map_path_compare(x, Head(s))) <= 0
       THEN <<x>> \o s
       ELSE <<Head(s)>> \o SortedInsert(Tail(s), x, byBlock)

\* qsort (files, file_count, sizeof (*files), compare)
RECURSIVE Qsort(_, _)
Qsort(files, byBlock) ==
  IF files = <<>> THEN <<>>
  ELSE SortedInsert(Qsort(Tail(files), byBlock), Head(files), byBlock)

\* set_block: 0 when the file cannot be opened, else the inode number.
set_block(f, missing) ==
  [f EXCEPT !.block = IF f.path \in missing THEN 0 ELSE Inode(f.path)]

sort_by_block_or_inode(files, missing) ==
  IF \E i \in DOMAIN files : files[i].block = -1
  THEN LET byPath == Qsort(files, FALSE)
           blocked == [i \in DOMAIN byPath |->
                         IF byPath[i].block = -1 THEN set_block(byPath[i], missing)
                         ELSE byPath[i]]
       IN Qsort(blocked, TRUE)
  ELSE Qsort(files, TRUE)

sort_files(files, strategy, missing) ==
  CASE strategy = "SORT_NONE" -> files
    [] strategy = "SORT_PATH" -> Qsort(files, FALSE)
    [] strategy \in {"SORT_INODE", "SORT_BLOCK"} -> sort_by_block_or_inode(files, missing)
    [] OTHER -> files

NoPending == [path |-> "", offset |-> 0, length |-> 0]

\* The loop of preload_readahead from index i, with the pending request pend and
\* the requests already handed to process_file.
RECURSIVE CoalesceFrom(_, _, _, _)
CoalesceFrom(files, i, pend, issued) ==
  IF i > Len(files)
  THEN IF pend.path # "" THEN Append(issued, pend) ELSE issued
  ELSE IF /\ pend.path # ""
          /\ pend.offset <= files[i].offset
          /\ pend.offset + pend.length >= files[i].offset
          /\ pend.path = files[i].path
       THEN CoalesceFrom(files, i + 1,
              [pend EXCEPT !.length = files[i].offset + files[i].length - pend.offset],
              issued)
       ELSE CoalesceFrom(files, i + 1,
              [path |-> files[i].path, offset |-> files[i].offset,
               length |-> files[i].length],
              IF pend.path # "" THEN Append(issued, pend) ELSE issued)

\* preload_readahead (files, file_count) on the array ra.files.
preload_readahead(r) ==
  LET sorted == sort_files(r.files, r.sortstrategy, r.missing)
      issued == CoalesceFrom(sorted, 1, NoPending, <<>>)
  IN [r EXCEPT !.files = sorted,
               !.sortstrategy = IF r.sortstrategy \in SortStrategies \ {"invalid"}
                                THEN @ ELSE "SORT_BLOCK",
               !.issued = issued,
               !.processed = Len(issued),
               !.calls = @ + 1]

RaRequests ==
  [path : RaPaths, offset : RaOffsets, length : RaLengths, block : {-1}]

RECURSIVE DistinctSeqs(_, _)
DistinctSeqs(S, n) ==
  IF n = 0 THEN {<<>>}
  ELSE LET shorter == DistinctSeqs(S, n - 1)
       IN shorter \cup {Append(q, x) : q \in {t \in shorter : Len(t) = n - 1},
                                       x \in S}

RaInit ==
  /\ StoreIs(EmptyStore) /\ IdleDaemon /\ pc = "readahead" /\ aux = <<>>
  /\ \E files \in {q \in DistinctSeqs(RaRequests, MaxFiles) :
                     \A i \in DOMAIN q : \A j \in DOMAIN q : i # j => q[i] # q[j]},
        strategy \in SortStrategies, missing \in {{}, {"/lib/y"}} :
       ra = [input |-> files, files |-> files, sortstrategy |-> strategy,
             missing |-> missing, issued |-> <<>>, processed |-> 0, calls |-> 0]

\* The first call, and a later call on the same (now sorted, now blocked) array.
RaFirst ==
  /\ ra.calls = 0
  /\ ra' = preload_readahead(ra)

RaAgain ==
  /\ ra.calls = 1
  /\ ra' = preload_readahead(ra)

RaNext ==
  \/ RaFirst /\ UNCHANGED <<storeVars, daemonVars, pc, aux>>
  \/ RaAgain /\ UNCHANGED <<storeVars, daemonVars, pc, aux>>

SpecReadahead == RaInit /\ [][RaNext]_vars

RaBytes(reqs, path) ==
  UNION {{k \in 0..(reqs[i].offset + reqs[i].length) :
            reqs[i].offset <= k /\ k < reqs[i].offset + reqs[i].length}
         : i \in {j \in DOMAIN reqs : reqs[j].path = path}}

(* C7: coalescing in preload_readahead is lossless: for every input array,   *)
(* every sort strategy and every path p, the union of the byte ranges        *)
(* [offset, offset+length) of the input maps with path p equals the union of *)
(* the ranges passed to process_file for p, also when a later request lies   *)
(* strictly inside the pending one.                                          *)
CoalescingIsLossless ==
  (ra.calls > 0) =>
    \A path \in RaPaths : RaBytes(ra.input, path) = RaBytes(ra.issued, path)

(***************************************************************************)
(* state_io.c: the state file as a sequence of records, one per line.      *)
(***************************************************************************)
RECURSIVE Pow10(_)
Pow10(k) == IF k = 0 THEN 1 ELSE 10 * Pow10(k - 1)

\* <<q, r>> with n * 10^p = q * d + r, by long division.
RECURSIVE ScaledFloor(_, _, _)
ScaledFloor(n, d, p) ==
  IF p = 0 THEN <<n \div d, n % d>>
  ELSE LET prev == ScaledFloor(n, d, p - 1)
       IN <<prev[1] * 10 + (prev[2] * 10) \div d, (prev[2] * 10) % d>>

\* The number of decimals "%lg" keeps: the least that shows six significant digits.
LgDecimals(n, d) ==
  IF \E p \in 0..9 : ScaledFloor(n, d, p)[1] >= 100000
  THEN CHOOSE p \in 0..9 : /\ ScaledFloor(n, d, p)[1] >= 100000
                           /\ \A q \in 0..(p - 1) : ScaledFloor(n, d, q)[1] < 100000
  ELSE 9

\* printf ("%lg", x): x rounded to six significant decimal digits.
FormatLg(x) ==
  IF x[1] = 0 THEN RatZero
  ELSE
    LET n == Abs(x[1])
        d == x[2]
        p == LgDecimals(n, d)
        qr == ScaledFloor(n, d, p)
        digits == qr[1] + (IF 2 * qr[2] >= d THEN 1 ELSE 0)
        mag == Rat(digits, Pow10(p))
    IN IF x[1] < 0 THEN <<-mag[1], mag[2]>> ELSE mag

\* g_filename_to_uri and g_filename_from_uri on an absolute path.
FilenameToUri(path) == <<"file://", path>>
FilenameFromUri(uri) == uri[2]

\* The entries of a table that is not keyed by an object, in some fixed order.
RECURSIVE TableToSeq(_)
TableToSeq(T) ==
  IF T = {} THEN <<>>
  ELSE LET x == CHOOSE y \in T : TRUE IN <<x>> \o TableToSeq(T \ {x})

RECURSIVE Flatten(_)
Flatten(ss) == IF ss = <<>> THEN <<>> ELSE Head(ss) \o Flatten(Tail(ss))

write_header(S) == [tag |-> "PRELOAD", version |-> "VERSION", time |-> S.time]

write_map(S, m) ==
  [tag |-> "MAP", seq |-> S.mapHeap[m].seq, update_time |-> S.mapHeap[m].update_time,
   offset |-> S.mapHeap[m].offset, length |-> S.mapHeap[m].length,
   uri |-> FilenameToUri(S.mapHeap[m].path)]

write_badexe(bad) ==
  [tag |-> "BADEXE", size |-> bad.size, uri |-> FilenameToUri(bad.path)]

write_exe(S, e) ==
  [tag |-> "EXE", seq |-> S.exeHeap[e].seq, update_time |-> S.exeHeap[e].update_time,
   time |-> S.exeHeap[e].time, uri |-> FilenameToUri(S.exeHeap[e].path)]

write_exe_exemaps(S, e) ==
  [i \in DOMAIN S.exeHeap[e].exemaps |->
     [tag |-> "EXEMAP", exe |-> S.exeHeap[e].seq,
      map |-> S.mapHeap[S.exeHeap[e].exemaps[i].map].seq,
      prob |-> FormatLg(S.exeHeap[e].exemaps[i].prob)]]

write_markov(S, m) ==
  [tag |-> "MARKOV", a |-> S.exeHeap[S.markovHeap[m].a].seq,
   b |-> S.exeHeap[S.markovHeap[m].b].seq, time |-> S.markovHeap[m].time,
   time_to_leave |-> [i \in 0..3 |-> FormatLg(S.markovHeap[m].time_to_leave[i])],
   weight |-> S.markovHeap[m].weight]

\* preload_markov_foreach: each exe in table order, its edges for which it is a.
MarkovsInOrder(S) ==
  LET es == SetToSeq(S.exes)
      Owned(e) == LET IsA(m) == S.markovHeap[m].a = e
                  IN SelectSeq(S.exeHeap[e].markovs, IsA)
  IN Flatten([i \in DOMAIN es |-> Owned(es[i])])

\* write_state: header, maps, bad exes, exes, exemaps, markovs.  The hash tables
\* are walked in ascending object order.
write_state(S, bads) ==
  LET ms == SetToSeq(S.maps)
      es == SetToSeq(S.exes)
      bs == TableToSeq(bads)
      ks == MarkovsInOrder(S)
  IN <<write_header(S)>>
     \o [i \in DOMAIN ms |-> write_map(S, ms[i])]
     \o [i \in DOMAIN bs |-> write_badexe(bs[i])]
     \o [i \in DOMAIN es |-> write_exe(S, es[i])]
     \o Flatten([i \in DOMAIN es |-> write_exe_exemaps(S, es[i])])
     \o [i \in DOMAIN ks |-> write_markov(S, ks[i])]

\* g_hash_table_lookup (rc->maps / rc->exes, (gpointer) i)
RcLookup(table, i) ==
  IF \E p \in table : p[1] = i THEN (CHOOSE p \in table : p[1] = i)[2] ELSE NULL

read_map(R, rec) ==
  LET S1 == preload_map_new(R.S, FilenameFromUri(rec.uri), rec.offset, rec.length)
      m == Len(S1.mapHeap)
  IN IF RcLookup(R.maps, rec.seq) # NULL
     THEN [R EXCEPT !.S = [S1 EXCEPT !.mapHeap[m] = FreedMap],
                    !.errmsg = "duplicate index"]
     ELSE IF MapsLookup(S1, m) # NULL
     THEN [R EXCEPT !.S = [S1 EXCEPT !.mapHeap[m] = FreedMap],
                    !.errmsg = "duplicate object"]
     ELSE [R EXCEPT
             !.S = preload_map_ref([S1 EXCEPT !.mapHeap[m].update_time = rec.update_time], m),
             !.maps = @ \cup {<<rec.seq, m>>}]

read_exe(R, rec) ==
  LET path == FilenameFromUri(rec.uri)
      S1 == ReadExeStore(R.S, path, rec.time, rec.update_time)
      e == Len(S1.exeHeap)
  IN IF RcLookup(R.exes, rec.seq) # NULL
     THEN LET S2 == preload_exe_new(R.S, path, FALSE)
          IN [R EXCEPT !.S = preload_exe_free(S2, Len(S2.exeHeap)),
                       !.errmsg = "duplicate index"]
     ELSE IF ExesLookup(R.S, path) # NULL
     THEN [R EXCEPT !.S = S1, !.errmsg = "duplicate object"]
     ELSE [R EXCEPT !.S = S1, !.exes = @ \cup {<<rec.seq, e>>}]

read_exemap(R, rec) ==
  LET exe == RcLookup(R.exes, rec.exe)
      map == RcLookup(R.maps, rec.map)
  IN IF exe = NULL \/ map = NULL
     THEN [R EXCEPT !.errmsg = "invalid index"]
     ELSE [R EXCEPT !.S = preload_exemap_new_from_exe(R.S, exe, map, rec.prob)]

\* read_markov: change_timestamp keeps what g_malloc returned (junk); state is set
\* at the end of read_state.
read_markov(R, rec, junk) ==
  LET a == RcLookup(R.exes, rec.a)
      b == RcLookup(R.exes, rec.b)
      S1 == preload_markov_new(R.S, a, b, FALSE,
                               [FreedMarkov EXCEPT !.change_timestamp = junk,
                                                   !.state = 0])
      m == Len(S1.markovHeap)
  IN IF a = NULL \/ b = NULL
     THEN [R EXCEPT !.errmsg = "invalid index"]
     ELSE IF a = b
     THEN [R EXCEPT !.errmsg = "SIGSEGV"]
     ELSE [R EXCEPT !.S = [S1 EXCEPT !.markovHeap[m].time = rec.time,
                                     !.markovHeap[m].time_to_leave = rec.time_to_leave,
                                     !.markovHeap[m].weight = rec.weight]]

\* The read loop of read_state from line lineno on.
RECURSIVE ReadLines(_, _, _, _)
ReadLines(R, lines, lineno, junk) ==
  IF lineno > Len(lines) \/ R.errmsg # "" THEN R
  ELSE
    LET rec == lines[lineno]
    IN IF lineno = 1 /\ rec.tag # "PRELOAD" THEN R
       ELSE IF rec.tag = "PRELOAD"
       THEN IF lineno # 1 THEN [R EXCEPT !.errmsg = "invalid syntax"]
            ELSE IF rec.version # "VERSION" THEN R
            ELSE ReadLines([R EXCEPT !.S.time = rec.time,
                                     !.S.last_accounting_timestamp = rec.time],
                           lines, lineno + 1, junk)
       ELSE IF rec.tag = "MAP"
       THEN Bind(read_map(R, rec), LAMBDA R1 : ReadLines(R1, lines, lineno + 1, junk))
       ELSE IF rec.tag = "BADEXE" THEN ReadLines(R, lines, lineno + 1, junk)
       ELSE IF rec.tag = "EXE"
       THEN Bind(read_exe(R, rec), LAMBDA R1 : ReadLines(R1, lines, lineno + 1, junk))
       ELSE IF rec.tag = "EXEMAP"
       THEN Bind(read_exemap(R, rec), LAMBDA R1 : ReadLines(R1, lines, lineno + 1, junk))
       ELSE IF rec.tag = "MARKOV"
       THEN Bind(read_markov(R, rec, junk), LAMBDA R1 : ReadLines(R1, lines, lineno + 1, junk))
       ELSE [R EXCEPT !.errmsg = "invalid tag"]

RECURSIVE UnrefAll(_, _)
UnrefAll(S, ms) ==
  IF ms = <<>> THEN S
  ELSE Bind(preload_map_unref(S, Head(ms)), LAMBDA S1 : UnrefAll(S1, Tail(ms)))

\* A variant that keeps the reader's references.
RcMapsDestroy_keep(S, table) == S

\* g_hash_table_destroy (rc.maps): preload_map_unref on every map read.
RcMapsDestroy(S, table) == UnrefAll(S, SetToSeq({p[2] : p \in table}))

RECURSIVE SetMarkovStates(_, _)
SetMarkovStates(S, ms) ==
  IF ms = <<>> THEN S
  ELSE Bind([S EXCEPT !.markovHeap[Head(ms)].state =
               markov_compute_state(S, S.markovHeap[Head(ms)].a, S.markovHeap[Head(ms)].b)],
            LAMBDA S1 : SetMarkovStates(S1, Tail(ms)))

\* read_state on an opened file: [S, errmsg].
read_state(S, lines, junk) ==
  Bind(ReadLines([S |-> S, maps |-> {}, exes |-> {}, errmsg |-> ""], lines, 1, junk),
       LAMBDA R :
    Bind(RcMapsDestroy(R.S, R.maps), LAMBDA S1 :
      [S |-> IF R.errmsg = "" THEN SetMarkovStates(S1, MarkovsInOrder(S1)) ELSE S1,
       errmsg |-> R.errmsg]))

\* preload_state_read_file: a missing file is ignored with a warning.
preload_state_read_file(S, file, junk) ==
  IF file = <<>> THEN [S |-> S, errmsg |-> ""] ELSE read_state(S, file, junk)

JunkStamps == -1..MaxTime

(***************************************************************************)
(* SpecStore: the store API (exes with interned exemaps, registration,     *)
(* unregistration, running-bit changes, clock advances) together with      *)
(* preload_state_write_file and preload_state_read_file into a fresh       *)
(* state.                                                                  *)
(***************************************************************************)
\* The file mappings of a process of each exe: its own text and a shared library.
ExeMapSpecs(path) ==
  IF path = "/bin/a"
  THEN <<[path |-> "/bin/a", offset |-> 0, length |-> 1],
         [path |-> "/lib/c", offset |-> 0, length |-> 1]>>
  ELSE <<[path |-> "/lib/c", offset |-> 0, length |-> 1]>>

StoredMapWith(S, t) ==
  {k \in S.maps : /\ S.mapHeap[k].path = t.path
                  /\ S.mapHeap[k].offset = t.offset
                  /\ S.mapHeap[k].length = t.length}

\* proc_get_maps (pid, state->maps, &exemaps): one exemap per mapping, on the
\* stored map with that triple when there is one, else on a new map.
RECURSIVE proc_get_maps(_, _, _)
proc_get_maps(S, e, specs) ==
  IF specs = <<>> THEN S
  ELSE LET t == Head(specs)
           S1 == IF StoredMapWith(S, t) # {}
                 THEN preload_exemap_new_from_exe(S, e, CHOOSE k \in StoredMapWith(S, t) : TRUE,
                                                  RatOne)
                 ELSE LET Sn == preload_map_new(S, t.path, t.offset, t.length)
                      IN preload_exemap_new_from_exe(Sn, e, Len(Sn.mapHeap), RatOne)
       IN Bind(S1, LAMBDA S2 : proc_get_maps(S2, e, Tail(specs)))

NewMapsNeeded(S, path) ==
  Cardinality({i \in DOMAIN ExeMapSpecs(path) : StoredMapWith(S, ExeMapSpecs(path)[i]) = {}})

\* An exe built from a process's mappings and registered.
NewExeWithMaps(S, path, running, create_markovs) ==
  Bind(preload_exe_new(S, path, running), LAMBDA S1 :
    Bind(proc_get_maps(S1, Len(S1.exeHeap), ExeMapSpecs(path)), LAMBDA S2 :
      preload_state_register_exe(S2, Len(S1.exeHeap), create_markovs)))

StoreInit ==
  /\ \E running \in BOOLEAN :
       LET S1 == NewExeWithMaps(TestStore(0, 0), "/bin/a", running, FALSE)
       IN StoreIs([S1 EXCEPT !.exeHeap[1].exemaps[2].prob = Rat(1, 2)])
  /\ bad_exes = {[path |-> "/bin/z", size |-> 1]}
  /\ running_exes = <<>> /\ dirty = FALSE /\ model_dirty = FALSE
  /\ state_changed_exes = <<>> /\ new_exes = {} /\ cycle = 0
  /\ statefile = <<>>
  /\ pc = "run" /\ aux = [loads |-> 0] /\ ra = <<>>

StoreAdvance ==
  /\ pc # "saved"
  /\ time < MaxStoreTime
  /\ time' = time + 1
  /\ pc' = "run"
  /\ UNCHANGED <<last_running_timestamp, last_accounting_timestamp, exeHeap,
                 markovHeap, mapHeap, exes, maps, maps_arr, exe_seq, map_seq,
                 daemonVars, aux, ra>>

\* The exe /bin/a starts or stops running and its edges are told.
StoreExeChanged ==
  LET e == ExesLookup(Cur, "/bin/a")
      S1 == [Cur EXCEPT !.exeHeap[e].running_timestamp =
               IF exe_is_running(Cur, e) THEN -1 ELSE last_running_timestamp]
  IN /\ pc # "saved"
     /\ e # NULL
     /\ Assign(exe_changed_callback(S1, e))
     /\ pc' = "run"
     /\ UNCHANGED <<daemonVars, aux, ra>>

StoreRegister ==
  \E path \in {"/bin/a", "/bin/b"} :
    /\ pc # "saved"
    /\ ExesLookup(Cur, path) = NULL
    /\ Len(exeHeap) < MaxExeObjs
    /\ Len(markovHeap) + Cardinality(exes) <= MaxMarkovObjs
    /\ Len(mapHeap) + NewMapsNeeded(Cur, path) <= MaxMapObjs
    /\ Assign(NewExeWithMaps(Cur, path, TRUE, TRUE))
    /\ pc' = "run"
    /\ UNCHANGED <<daemonVars, aux, ra>>

StoreUnregister ==
  \E e \in exes :
    /\ pc # "saved"
    /\ Assign(preload_state_unregister_exe(Cur, e))
    /\ pc' = "run"
    /\ UNCHANGED <<daemonVars, aux, ra>>

\* preload_state_write_file.
StoreSave ==
  /\ pc # "saved"
  /\ aux.loads < MaxLoads
  /\ statefile' = write_state(Cur, bad_exes)
  /\ pc' = "saved"
  /\ UNCHANGED <<storeVars, bad_exes, running_exes, dirty, model_dirty,
                 state_changed_exes, new_exes, cycle, aux, ra>>

\* A fresh state (memset, empty tables), then preload_state_read_file; the file
\* is removed afterwards.
StoreLoad ==
  \E junk \in {-1, 0} :
    LET r == preload_state_read_file(EmptyStore, statefile, junk)
    IN /\ pc = "saved"
       /\ Assign(r.S)
       /\ bad_exes' = {}
       /\ pc' = IF r.errmsg = "" THEN "loaded" ELSE "failed"
       /\ statefile' = <<>>
       /\ aux' = [loads |-> aux.loads + 1]
       /\ UNCHANGED <<running_exes, dirty, model_dirty, state_changed_exes,
                      new_exes, cycle, ra>>

StoreNext ==
  \/ StoreAdvance
  \/ StoreExeChanged
  \/ StoreRegister
  \/ StoreUnregister
  \/ StoreSave
  \/ StoreLoad

SpecStore == StoreInit /\ [][StoreNext]_vars

(***************************************************************************)
(* SpecRoundTrip: a model with two exes, shared maps and one edge evolves  *)
(* with the clock and the running bit of /bin/a; at any point it is        *)
(* written with preload_state_write_file and read back into a fresh state. *)
(***************************************************************************)
RoundTripInit ==
  /\ \E ra0 \in BOOLEAN, rb0 \in BOOLEAN :
       LET S1 == NewExeWithMaps(TestStore(0, 0), "/bin/a", ra0, FALSE)
           S2 == NewExeWithMaps(S1, "/bin/b", rb0, TRUE)
       IN StoreIs([S2 EXCEPT !.exeHeap[1].exemaps[2].prob = Rat(1, 2)])
  /\ bad_exes = {[path |-> "/bin/z", size |-> 1]}
  /\ running_exes = <<>> /\ dirty = FALSE /\ model_dirty = FALSE
  /\ state_changed_exes = <<>> /\ new_exes = {} /\ cycle = 0
  /\ statefile = <<>>
  /\ pc = "run" /\ aux = <<>> /\ ra = <<>>

RoundTripAdvance ==
  /\ pc = "run"
  /\ time < MaxFileTime
  /\ time' = time + 1
  /\ UNCHANGED <<last_running_timestamp, last_accounting_timestamp, exeHeap,
                 markovHeap, mapHeap, exes, maps, maps_arr, exe_seq, map_seq,
                 daemonVars, pc, aux, ra>>

RoundTripExeChanged ==
  /\ pc = "run"
  /\ StoreExeChanged

\* preload_state_write_file; aux keeps the model that was written.
RoundTripSave ==
  /\ pc = "run"
  /\ statefile' = write_state(Cur, bad_exes)
  /\ aux' = Cur
  /\ pc' = "saved"
  /\ UNCHANGED <<storeVars, bad_exes, running_exes, dirty, model_dirty,
                 state_changed_exes, new_exes, cycle, ra>>

RoundTripLoad ==
  \E junk \in JunkStamps :
    LET r == preload_state_read_file(EmptyStore, statefile, junk)
    IN /\ pc = "saved"
       /\ Assign(r.S)
       /\ bad_exes' = {}
       /\ pc' = IF r.errmsg = "" THEN "loaded" ELSE "failed"
       /\ UNCHANGED <<running_exes, dirty, model_dirty, state_changed_exes,
                      new_exes, cycle, statefile, aux, ra>>

RoundTripNext ==
  \/ RoundTripAdvance
  \/ RoundTripExeChanged
  \/ RoundTripSave
  \/ RoundTripLoad

SpecRoundTrip == RoundTripInit /\ [][RoundTripNext]_vars

MapTriple(S, m) ==
  <<S.mapHeap[m].path, S.mapHeap[m].offset, S.mapHeap[m].length>>

\* What the round trip is to preserve.
ModelOf(S) ==
  [time |-> S.time,
   exes |-> {<<S.exeHeap[e].path, S.exeHeap[e].time, S.exeHeap[e].update_time>> : e \in S.exes},
   maps |-> {MapTriple(S, m) : m \in S.maps},
   exemaps |-> UNION {{<<S.exeHeap[e].path, MapTriple(S, S.exeHeap[e].exemaps[i].map),
                        S.exeHeap[e].exemaps[i].prob>> : i \in DOMAIN S.exeHeap[e].exemaps}
                      : e \in S.exes},
   markovs |-> UNION {{<<S.exeHeap[S.markovHeap[S.exeHeap[e].markovs[i]].a].path,
                         S.exeHeap[S.markovHeap[S.exeHeap[e].markovs[i]].b].path,
                         S.markovHeap[S.exeHeap[e].markovs[i]].time,
                         S.markovHeap[S.exeHeap[e].markovs[i]].time_to_leave,
                         S.markovHeap[S.exeHeap[e].markovs[i]].weight>>
                        : i \in DOMAIN S.exeHeap[e].markovs}
                      : e \in S.exes}]

(* C6: for every reachable model s, writing s with preload_state_write_file  *)
(* and reading the file into a fresh state with preload_state_read_file      *)
(* succeeds and yields a state equal to s in state.time, the exes (path,     *)
(* time, update_time), the maps (path, offset, length), the exemaps (exe,    *)
(* map, prob) and the markov edges (endpoints, time, time_to_leave, weight), *)
(* while bad_exes is empty whatever was written.                             *)
RoundTripPreservesModel ==
  (pc \in {"loaded", "failed"}) =>
    /\ pc = "loaded"
    /\ ModelOf(Cur) = ModelOf(aux)
    /\ bad_exes = {}

ExemapsOn(S, m) ==
  UNION {{<<e, i>> : i \in {j \in DOMAIN S.exeHeap[e].exemaps :
                              S.exeHeap[e].exemaps[j].map = m}}
         : e \in LiveExes(S)}

(* C2: at every operation boundary (after any sequence of exemap creation,   *)
(* exe registration, exe unregistration and a completed state load), every   *)
(* map in the store has a refcount equal to the number of exemaps, over all  *)
(* exes, whose map it is.                                                    *)
RefcountCountsExemaps ==
  \A m \in maps : mapHeap[m].refcount = Cardinality(ExemapsOn(Cur, m))

\* A completed load of a model in which two exes share a map.
RefcountWitness ==
  /\ pc = "loaded"
  /\ \E m \in maps : mapHeap[m].refcount = 2

(***************************************************************************)
(* SpecDaemon: the event loop of the daemon.  preload_state_tick (scan)    *)
(* and preload_state_tick2 (update_model) alternate half a cycle apart;    *)
(* preload_state_save runs from the autosave timer between any two of      *)
(* them; the process can be stopped and started again, which runs          *)
(* preload_state_load on the state file as it is on disk.                  *)
(*                                                                         *)
(* proc.c is not part of the sources.  proc.h documents proc_foreach as    *)
(* passing (pid, path); set_running_process_callback in state.c reads its  *)
(* arguments that way, running_process_callback in spy.c reads them as     *)
(* (path, pid).  aux.convention is what proc_foreach really passes.  The   *)
(* callback written for the other order uses a pid as a string: that is    *)
(* undefined, and the model lets it either end the process or look up a    *)
(* string no table holds.                                                  *)
(*                                                                         *)
(* preload_prophet_predict (not in the sources) writes only the lnprob     *)
(* fields, which the model does not carry.                                 *)
(***************************************************************************)
DaemonPaths == {"/bin/a", "/bin/b"}
Cycles == {2}
Conventions == {"pid_path", "path_pid"}
ProcOutcomes == {"gone", "small", "ok"}
UbOutcomes == {"crash", "miss"}

\* What proc_foreach reports: the exe path of each process, in /proc order.
ScanReports == UNION {[1..n -> DaemonPaths] : n \in 0..MaxProcs}

\* spy.c running_process_callback; D holds the store and the three statics of spy.c.
running_process_callback(D, bads, path) ==
  LET exe == ExesLookup(D.S, path)
  IN IF exe # NULL
     THEN LET D1 == IF ~exe_is_running(D.S, exe)
                    THEN [D EXCEPT !.new_running = <<exe>> \o @,
                                   !.state_changed = <<exe>> \o @]
                    ELSE D
          IN [D1 EXCEPT !.S.exeHeap[exe].running_timestamp = D.S.time]
     ELSE IF \E bad \in bads : bad.path = path THEN D
     ELSE [D EXCEPT !.new_exes = @ \cup {path}]

\* proc_foreach (running_process_callback, data)
RECURSIVE ScanProcesses(_, _, _)
ScanProcesses(D, bads, reports) ==
  IF reports = <<>> THEN D
  ELSE Bind(running_process_callback(D, bads, Head(reports)),
            LAMBDA D1 : ScanProcesses(D1, bads, Tail(reports)))

\* A variant that keeps every exe of the old list on the new one.
already_running_exe_callback_keep(D, exe) ==
  [D EXCEPT !.new_running = <<exe>> \o @]

\* spy.c already_running_exe_callback
already_running_exe_callback(D, exe) ==
  IF exe_is_running(D.S, exe)
  THEN [D EXCEPT !.new_running = <<exe>> \o @]
  ELSE [D EXCEPT !.state_changed = <<exe>> \o @]

RECURSIVE AlreadyRunning(_, _)
AlreadyRunning(D, running) ==
  IF running = <<>> THEN D
  ELSE Bind(already_running_exe_callback(D, Head(running)),
            LAMBDA D1 : AlreadyRunning(D1, Tail(running)))

\* preload_spy_scan; the new state->running_exes is the result's new_running.
preload_spy_scan(S, running, bads, reports) ==
  LET D0 == [S |-> S, new_running |-> <<>>, state_changed |-> <<>>, new_exes |-> {}]
  IN Bind(ScanProcesses(D0, bads, reports), LAMBDA D1 :
       Bind([D1 EXCEPT !.S.last_running_timestamp = D1.S.time],
            LAMBDA D2 : AlreadyRunning(D2, running)))

\* spy.c new_exe_callback; U holds the store, state->running_exes and state->bad_exes.
\* outcome is what proc_get_maps finds: the process gone, a total size below
\* conf->model.minsize, or mappings worth tracking.
new_exe_callback(U, path, outcome) ==
  IF outcome = "gone" THEN U
  ELSE IF outcome = "small"
  THEN [U EXCEPT !.bads = {b \in @ : b.path # path} \cup {[path |-> path, size |-> 1]}]
  ELSE Bind(NewExeWithMaps(U.S, path, TRUE, TRUE), LAMBDA S1 :
         [U EXCEPT !.S = S1, !.running = <<Len(S1.exeHeap)>> \o @])

\* g_hash_table_foreach (new_exes, new_exe_callback, data)
RECURSIVE RegisterNewExes(_, _, _)
RegisterNewExes(U, paths, outcome) ==
  IF paths = <<>> THEN U
  ELSE Bind(new_exe_callback(U, Head(paths), outcome[Head(paths)]),
            LAMBDA U1 : RegisterNewExes(U1, Tail(paths), outcome))

\* g_slist_foreach (state_changed_exes, exe_changed_callback, data)
RECURSIVE ExesChanged(_, _)
ExesChanged(S, changed) ==
  IF changed = <<>> THEN S
  ELSE Bind(exe_changed_callback(S, Head(changed)),
            LAMBDA S1 : ExesChanged(S1, Tail(changed)))

\* running_exe_inc_time over state->exes, running_markov_inc_time over the edges.
Accounting(S) ==
  LET period == S.time - S.last_accounting_timestamp
  IN Bind(Range(MarkovsInOrder(S)), LAMBDA edges :
     [S EXCEPT
        !.exeHeap = [e \in DOMAIN S.exeHeap |->
                       IF e \in S.exes /\ exe_is_running(S, e)
                       THEN [S.exeHeap[e] EXCEPT !.time = @ + period]
                       ELSE S.exeHeap[e]],
        !.markovHeap = [m \in DOMAIN S.markovHeap |->
                          IF m \in edges /\ S.markovHeap[m].state = 3
                          THEN [S.markovHeap[m] EXCEPT !.time = @ + period]
                          ELSE S.markovHeap[m]],
        !.last_accounting_timestamp = S.time])

\* preload_spy_update_model
preload_spy_update_model(S, running, bads, queued, changed, outcome) ==
  Bind(RegisterNewExes([S |-> S, running |-> running, bads |-> bads],
                       TableToSeq(queued), outcome), LAMBDA U :
    Bind(ExesChanged(U.S, changed), LAMBDA S1 :
      Bind(Accounting(S1), LAMBDA S2 : [U EXCEPT !.S = S2])))

\* The objects and edges update_model may allocate stay within the heaps' bounds.
RoomFor(queued) ==
  LET k == Cardinality(queued)
      needed == UNION {{ExeMapSpecs(q)[i] : i \in DOMAIN ExeMapSpecs(q)} : q \in queued}
  IN /\ Len(exeHeap) + k <= MaxExeObjs
     /\ Len(markovHeap) + k * Cardinality(exes) + (k * (k - 1)) \div 2 <= MaxMarkovObjs
     /\ Len(mapHeap) + Cardinality({t \in needed : StoredMapWith(Cur, t) = {}}) <= MaxMapObjs

RECURSIVE Reverse(_)
Reverse(s) == IF s = <<>> THEN <<>> ELSE Reverse(Tail(s)) \o <<Head(s)>>

\* check_exe_validity over state->exes: the exes that are not running and whose
\* file is gone, in the order of ctx.exes_to_remove.
ExesToRemove(S, gone) ==
  Reverse(SetToSeq({e \in S.exes : ~exe_is_running(S, e) /\ S.exeHeap[e].path \in gone}))

\* remove_invalid_exe up to the return of preload_state_unregister_exe, for each
\* exe to remove.
RECURSIVE RemoveInvalidExes(_, _)
RemoveInvalidExes(S, rm) ==
  IF rm = <<>> THEN S
  ELSE Bind(IF ExesLookup(S, S.exeHeap[Head(rm)].path) = NULL THEN S
            ELSE preload_state_unregister_exe(S, Head(rm)),
            LAMBDA S1 : RemoveInvalidExes(S1, Tail(rm)))

\* state.c set_running_process_callback over what proc_foreach reports.
RECURSIVE SetRunning(_, _)
SetRunning(L, reports) ==
  IF reports = <<>> THEN L
  ELSE LET exe == ExesLookup(L.S, Head(reports))
       IN Bind(IF exe = NULL THEN L
               ELSE [L EXCEPT !.S.exeHeap[exe].running_timestamp = L.S.time,
                              !.running = <<exe>> \o @],
               LAMBDA L1 : SetRunning(L1, Tail(reports)))

\* preload_state_load after preload_state_read_file has returned r with no error:
\* the running processes marked, last_running_timestamp = time.
preload_state_load(r, reports) ==
  Bind(SetRunning([S |-> r.S, running |-> <<>>], reports), LAMBDA L :
    [S |-> [L.S EXCEPT !.last_running_timestamp = L.S.time], running |-> L.running])

\* The values the uninitialised change_timestamp of a loaded edge can have; a file
\* without edges has none to give.
JunkOf(file) ==
  IF \E i \in DOMAIN file : file[i].tag = "MARKOV" THEN JunkStamps ELSE {-1}

DaemonInit ==
  /\ StoreIs(EmptyStore)
  /\ bad_exes = {} /\ running_exes = <<>> /\ dirty = FALSE /\ model_dirty = FALSE
  /\ state_changed_exes = <<>> /\ new_exes = {}
  /\ cycle \in Cycles
  /\ statefile = <<>>
  /\ pc = "tick"
  /\ aux \in [convention : Conventions, restarts : {0}]
  /\ ra = <<>>

Crash ==
  /\ pc' = "crashed"
  /\ UNCHANGED <<storeVars, bad_exes, running_exes, dirty, model_dirty,
                 state_changed_exes, new_exes, cycle, statefile, aux, ra>>

\* The end of preload_state_tick after the scan has returned D.
Scanned(D) ==
  /\ Assign([D.S EXCEPT !.time = @ + (cycle \div 2)])
  /\ running_exes' = D.new_running
  /\ state_changed_exes' = D.state_changed
  /\ new_exes' = D.new_exes
  /\ dirty' = TRUE
  /\ model_dirty' = TRUE
  /\ pc' = "tick2"
  /\ UNCHANGED <<bad_exes, cycle, statefile, aux, ra>>

\* preload_state_tick: scan, dirty = model_dirty = TRUE, time += cycle / 2.
DaemonTick ==
  /\ pc = "tick"
  /\ time + cycle <= MaxDaemonTime
  /\ \E reports \in ScanReports :
       IF aux.convention = "pid_path" /\ reports # <<>>
       THEN \E ub \in UbOutcomes :
              IF ub = "crash" THEN Crash
              ELSE \E D \in {preload_spy_scan(Cur, running_exes, bad_exes, <<>>)} : Scanned(D)
       ELSE \E D \in {preload_spy_scan(Cur, running_exes, bad_exes, reports)} : Scanned(D)

\* The end of preload_state_tick2 after update_model has returned U.
Updated(U) ==
  /\ Assign([U.S EXCEPT !.time = @ + ((cycle + 1) \div 2)])
  /\ running_exes' = U.running
  /\ bad_exes' = U.bads
  /\ state_changed_exes' = IF model_dirty THEN <<>> ELSE state_changed_exes
  /\ new_exes' = IF model_dirty THEN {} ELSE new_exes
  /\ model_dirty' = FALSE
  /\ pc' = "tick"
  /\ UNCHANGED <<dirty, cycle, statefile, aux, ra>>

\* preload_state_tick2: update_model when model_dirty, time += (cycle + 1) / 2.
\* An exe on state_changed_exes that a sweep has freed in between is used after
\* free: the process ends or the callback finds nothing to touch.
DaemonTick2 ==
  /\ pc = "tick2"
  /\ RoomFor(new_exes)
  /\ IF ~model_dirty
     THEN Updated([S |-> Cur, running |-> running_exes, bads |-> bad_exes])
     ELSE LET Alive(e) == ~exeHeap[e].freed
          IN \E ub \in IF \A e \in Range(state_changed_exes) : Alive(e)
                       THEN {"miss"} ELSE UbOutcomes :
               IF ub = "crash" THEN Crash
               ELSE \E outcome \in [new_exes -> ProcOutcomes] :
                      \E U \in {preload_spy_update_model(Cur, running_exes, bad_exes,
                                  new_exes, SelectSeq(state_changed_exes, Alive), outcome)} :
                        Updated(U)

\* preload_state_save from the autosave timer: the file is written when dirty, the
\* sweep runs, bad_exes is emptied.  stat finds the files of the exes in `gone`
\* missing.  remove_invalid_exe frees an exe that preload_state_unregister_exe has
\* freed already: the process ends or goes on.
DaemonSave ==
  /\ pc \in {"tick", "tick2"}
  /\ statefile' = IF dirty THEN write_state(Cur, bad_exes) ELSE statefile
  /\ dirty' = FALSE
  /\ \E gone \in SUBSET {exeHeap[e].path : e \in {x \in exes : ~exe_is_running(Cur, x)}} :
       IF gone = {}
       THEN /\ bad_exes' = {}
            /\ UNCHANGED <<storeVars, running_exes, pc>>
       ELSE \E ub \in UbOutcomes :
              IF ub = "crash"
              THEN /\ pc' = "crashed"
                   /\ UNCHANGED <<storeVars, bad_exes, running_exes>>
              ELSE /\ Assign(RemoveInvalidExes(Cur, ExesToRemove(Cur, gone)))
                   /\ bad_exes' = {}
                   /\ UNCHANGED <<running_exes, pc>>
  /\ UNCHANGED <<model_dirty, state_changed_exes, new_exes, cycle, aux, ra>>

\* The end of preload_state_load and the start of preload_state_run.
Loaded(L) ==
  /\ Assign(L.S)
  /\ running_exes' = L.running
  /\ bad_exes' = {}
  /\ dirty' = FALSE
  /\ model_dirty' = FALSE
  /\ state_changed_exes' = <<>>
  /\ new_exes' = {}
  /\ pc' = "tick"

\* g_error in preload_state_load, or the wild read of its callback, ends the process.
LoadCrash ==
  /\ pc' = "crashed"
  /\ UNCHANGED <<storeVars, bad_exes, running_exes, dirty, model_dirty,
                 state_changed_exes, new_exes>>

\* The process is stopped where it is and started again: preload_state_load on the
\* file on disk, then preload_state_run.
DaemonRestart ==
  /\ aux.restarts < MaxRestarts
  /\ aux' = [aux EXCEPT !.restarts = @ + 1]
  /\ \E junk \in JunkOf(statefile) :
       \E r \in {preload_state_read_file(EmptyStore, statefile, junk)} :
         IF r.errmsg # "" THEN LoadCrash
         ELSE \E reports \in ScanReports :
                IF aux.convention = "path_pid" /\ reports # <<>>
                THEN \E ub \in UbOutcomes :
                       IF ub = "crash" THEN LoadCrash
                       ELSE Loaded(preload_state_load(r, <<>>))
                ELSE Loaded(preload_state_load(r, reports))
  /\ UNCHANGED <<cycle, statefile, ra>>

DaemonNext ==
  \/ DaemonTick
  \/ DaemonTick2
  \/ DaemonSave
  \/ DaemonRestart

SpecDaemon == DaemonInit /\ [][DaemonNext]_vars

\* The assertion of preload_markov_correlation on integers: with
\* n = t*ab - a*b and d = a*b*(t-a)*(t-b),  |n / sqrt(d)| <= 1.00001  is
\* n*n - d <= d * 200001 / 10^10.
CorrelationAsserted(t, a, b, ab) ==
  IF a = 0 \/ a = t \/ b = 0 \/ b = t THEN TRUE
  ELSE LET n == t * ab - a * b
           d == a * b * (t - a) * (t - b)
       IN /\ d > 0
          /\ n * n - d <= ((d * 200001) \div 100000) \div 100000

(* C5: in every reachable state of the daemon (after any sequence of state   *)
(* load, scan, update_model and exe registration), for every markov edge,    *)
(* with t = state.time, a = a.time, b = b.time, ab = edge.time, whenever     *)
(* 0 < a < t and 0 < b < t the correlation (t*ab - a*b) / sqrt(a*b*(t-a)*    *)
(* (t-b)) has absolute value at most 1.00001.                                *)
CorrelationBounded ==
  (pc # "crashed") =>
    \A m \in LiveMarkovs(Cur) :
      LET a == exeHeap[markovHeap[m].a].time
          b == exeHeap[markovHeap[m].b].time
      IN (0 < a /\ a < time /\ 0 < b /\ b < time)
           => CorrelationAsserted(time, a, b, markovHeap[m].time)

\* The number of transitions an edge has recorded.
Transitions(mk) ==
  mk.weight[0][1] + mk.weight[0][2] + mk.weight[0][3]
  + mk.weight[1][0] + mk.weight[1][2] + mk.weight[1][3]
  + mk.weight[2][0] + mk.weight[2][1] + mk.weight[2][3]
  + mk.weight[3][0] + mk.weight[3][1] + mk.weight[3][2]

\* A second preload_markov_state_changed right after the first changes nothing.
StateChangedIdempotent ==
  \A m \in LiveMarkovs(Cur) :
    preload_markov_state_changed(preload_markov_state_changed(Cur, m), m).markovHeap[m]
      = preload_markov_state_changed(Cur, m).markovHeap[m]

\* An update_model step in which both endpoints of edge m are on state_changed_exes.
BothEndpointsFlip(m) ==
  /\ pc = "tick2" /\ pc' = "tick" /\ model_dirty
  /\ aux' = aux
  /\ m \in LiveMarkovs(Cur)
  /\ markovHeap[m].a \in Range(state_changed_exes)
  /\ markovHeap[m].b \in Range(state_changed_exes)
  /\ ~exeHeap[markovHeap[m].a].freed
  /\ ~exeHeap[markovHeap[m].b].freed

(* C8: calling preload_markov_state_changed(edge) twice with no change of     *)
(* state.time or of the endpoints' running bits in between leaves the edge    *)
(* (state, change_timestamp, weight, time_to_leave) exactly as after the      *)
(* first call; in particular, when both endpoints of an edge flip in the same *)
(* update_model, the edge records exactly one transition.                     *)
StateChangedOncePerUpdate ==
  /\ []StateChangedIdempotent
  /\ [][\A m \in DOMAIN markovHeap :
          BothEndpointsFlip(m) =>
            Transitions(markovHeap'[m]) = Transitions(markovHeap[m]) + 1]_vars

(***************************************************************************)
(* SpecCorrelation: preload_markov_correlation on the integers it reads    *)
(* (state->time, a->time, b->time, markov->time).  The double it returns   *)
(* is kept as numerator and squared denominator.                           *)
(***************************************************************************)
MaxCorr == 3

\* The values test_markov_correlation_zero and the specification's example
\* put in the four fields.
CorrExamples ==
  {[t |-> 1000, a |-> 0, b |-> 1000, ab |-> 0],
   [t |-> 1000, a |-> 1000, b |-> 1000, ab |-> 1000]}

CorrInputs == [t : 0..MaxCorr, a : 0..MaxCorr, b : 0..MaxCorr, ab : 0..MaxCorr]
                \cup CorrExamples

DoubleZero == [kind |-> "num", num |-> 0, den2 |-> 1]

\* numerator / sqrt (denominator2): 0/0 and the root of a negative number
\* are NaN, x/0 is an infinity.
Quotient(numerator, denominator2) ==
  IF denominator2 < 0 THEN [kind |-> "nan", num |-> 0, den2 |-> 1]
  ELSE IF denominator2 = 0
    THEN IF numerator = 0 THEN [kind |-> "nan", num |-> 0, den2 |-> 1]
         ELSE [kind |-> "inf", num |-> numerator, den2 |-> 0]
  ELSE [kind |-> "num", num |-> numerator, den2 |-> denominator2]

\* g_assert (fabs (correlation) <= 1.00001)
CorrelationAssertHolds(c) ==
  /\ c.kind = "num"
  /\ c.num * c.num - c.den2 <= ((c.den2 * 200001) \div 100000) \div 100000

preload_markov_correlation_no_guard(t, a, b, ab) ==
  LET correlation == Quotient(t * ab - a * b, (a * b) * ((t - a) * (t - b)))
  IN [correlation |-> correlation, aborted |-> ~CorrelationAssertHolds(correlation)]

preload_markov_correlation(t, a, b, ab) ==
  LET correlation ==
        IF a = 0 \/ a = t \/ b = 0 \/ b = t THEN DoubleZero
        ELSE Quotient(t * ab - a * b, (a * b) * ((t - a) * (t - b)))
  IN [correlation |-> correlation, aborted |-> ~CorrelationAssertHolds(correlation)]

CorrInit ==
  /\ StoreIs(EmptyStore) /\ IdleDaemon /\ pc = "corr" /\ ra = <<>>
  /\ \E inp \in CorrInputs : aux = [inp |-> inp, called |-> FALSE, out |-> DoubleZero, aborted |-> FALSE]

\* The fields change between calls.
CorrSet ==
  /\ pc = "corr"
  /\ \E inp \in CorrInputs : aux' = [inp |-> inp, called |-> FALSE, out |-> DoubleZero, aborted |-> FALSE]
  /\ UNCHANGED <<storeVars, daemonVars, pc, ra>>

CorrCall ==
  /\ pc = "corr" /\ ~aux.called
  /\ \E r \in {preload_markov_correlation(aux.inp.t, aux.inp.a, aux.inp.b, aux.inp.ab)} :
       aux' = [aux EXCEPT !.called = TRUE, !.out = r.correlation, !.aborted = r.aborted]
  /\ UNCHANGED <<storeVars, daemonVars, pc, ra>>

CorrNext == CorrSet \/ CorrCall

SpecCorrelation == CorrInit /\ [][CorrNext]_vars

(* C11: preload_markov_correlation returns exactly 0 (and its assertion      *)
(* passes) whenever a.time or b.time is 0 or equals state.time, for every    *)
(* value of edge.time; t = a = b = ab = 1000 gives 0, not 1.                 *)
ZeroVarianceGuard ==
  (pc = "corr" /\ aux.called) =>
    LET inp == aux.inp
    IN (inp.a = 0 \/ inp.a = inp.t \/ inp.b = 0 \/ inp.b = inp.t)
         => /\ aux.out.kind = "num" /\ aux.out.num = 0
            /\ ~aux.aborted

\* The specification's example has been computed.
ZeroVarianceWitness ==
  /\ pc = "corr" /\ aux.called
  /\ aux.inp = [t |-> 1000, a |-> 1000, b |-> 1000, ab |-> 1000]
  /\ aux.out.kind = "num" /\ aux.out.num = 0

(***************************************************************************)
(* The VOMM context tree (algorithm/vomm.c).  A node is named by the keys  *)
(* on the way from the root (each children table is keyed by exe->path),   *)
(* the root by the empty sequence.  vomm_system is the record              *)
(* [root, nodes, current_context, history, history_length].                *)
(***************************************************************************)
MAX_VOMM_DEPTH == 5
MaxVommUpdates == 6

\* current_context == NULL
NoContext == <<"NULL">>

\* static struct _vomm_system_t vomm_system = {0}
VommZero ==
  [root |-> FALSE, nodes |-> <<>>, current_context |-> NoContext,
   history |-> <<>>, history_length |-> 0]

\* vomm_node_new (exe, parent): count = 0, no children.
vomm_node_new(exe) == [exe |-> exe, count |-> 0]

vomm_init(V) ==
  [root |-> TRUE, nodes |-> (<<>> :> vomm_node_new(NULL)), current_context |-> <<>>,
   history |-> <<>>, history_length |-> 0]

\* g_hash_table_lookup (parent->children, key), and the node created when
\* the lookup fails.
VommChild(nodes, parent, key, exe) ==
  IF Append(parent, key) \in DOMAIN nodes THEN nodes
  ELSE nodes @@ (Append(parent, key) :> vomm_node_new(exe))

VommCountInc(nodes, node) ==
  [nodes EXCEPT ![node].count = @ + 1]

\* 1. Update Global History.
VommHistory(V, exe) ==
  LET h == Append(V.history, exe)
      n == V.history_length + 1
  IN IF n > MAX_VOMM_DEPTH
     THEN [V EXCEPT !.history = Tail(h), !.history_length = n - 1]
     ELSE [V EXCEPT !.history = h, !.history_length = n]

\* 2. Update Tree Structure: one step down from current_context.
VommTrain(V, S, exe) ==
  LET ctx == IF V.current_context = NoContext THEN <<>> ELSE V.current_context
      path == S.exeHeap[exe].path
      next_node == Append(ctx, path)
  IN [V EXCEPT !.nodes = VommCountInc(VommChild(V.nodes, ctx, path, exe), next_node),
               !.current_context = next_node]

\* 3. Global Bigram Update: root -> prev_exe -> exe.
VommBigram(V, S, exe) ==
  IF V.history_length >= 2 /\ Len(V.history) >= 2
  THEN LET prev_exe == V.history[Len(V.history) - 1]
           prev == S.exeHeap[prev_exe].path
           path == S.exeHeap[exe].path
           with_ctx == VommChild(V.nodes, <<>>, prev, prev_exe)
           with_target == VommChild(with_ctx, <<prev>>, path, exe)
       IN [V EXCEPT !.nodes = VommCountInc(with_target, <<prev, path>>)]
  ELSE V

vomm_update(V, S, exe) ==
  IF exe = NULL THEN V
  ELSE IF ~V.root THEN V
  ELSE Bind(VommHistory(V, exe), LAMBDA V1 :
       Bind(VommTrain(V1, S, exe), LAMBDA V2 :
       VommBigram(V2, S, exe)))

(***************************************************************************)
(* SpecVomm: vomm_init, then vomm_update with registered exes in any       *)
(* order.  aux.updates keeps the exes passed so far.                       *)
(***************************************************************************)
VommStore ==
  MakeExe(MakeExe(MakeExe(TestStore(0, 0), "/bin/a", "idle"), "/bin/b", "idle"),
          "/bin/c", "idle")

VommInit ==
  /\ StoreIs(VommStore) /\ IdleDaemon /\ pc = "vomm" /\ ra = <<>>
  /\ aux = [vomm |-> vomm_init(VommZero), updates |-> <<>>]

VommUpdate ==
  /\ pc = "vomm"
  /\ Len(aux.updates) < MaxVommUpdates
  /\ \E exe \in exes :
       \E V \in {vomm_update(aux.vomm, Cur, exe)} :
         aux' = [vomm |-> V, updates |-> Append(aux.updates, exe)]
  /\ UNCHANGED <<storeVars, daemonVars, pc, ra>>

\* vomm_update (NULL) and vomm_update before vomm_init return at once.
VommUpdateNull ==
  /\ pc = "vomm"
  /\ \E V \in {vomm_update(aux.vomm, Cur, NULL)} : aux' = [aux EXCEPT !.vomm = V]
  /\ UNCHANGED <<storeVars, daemonVars, pc, ra>>

VommNext == VommUpdate \/ VommUpdateNull

SpecVomm == VommInit /\ [][VommNext]_vars

\* The count of a node, 0 when the node does not exist.
VommCount(V, node) == IF node \in DOMAIN V.nodes THEN V.nodes[node].count ELSE 0

\* The number of positions at which y was passed immediately after x.
Follows(updates, x, y) ==
  Cardinality({i \in 1..(Len(updates) - 1) : updates[i] = x /\ updates[i + 1] = y})

(* C12: after vomm_init followed by any sequence of vomm_update calls, for   *)
(* all exes x and y the count of node root -> x -> y equals the number of    *)
(* positions in the sequence at which y was observed immediately after x.    *)
BigramCountsFollows ==
  (pc = "vomm") =>
    \A x \in exes, y \in exes :
      VommCount(aux.vomm, <<exeHeap[x].path, exeHeap[y].path>>)
        = Follows(aux.updates, x, y)

(* C13: after any sequence of vomm_update calls the depth of current_context *)
(* below the root never exceeds MAX_VOMM_DEPTH.                              *)
ContextDepthBounded ==
  (pc = "vomm" /\ aux.vomm.current_context # NoContext) =>
    Len(aux.vomm.current_context) <= MAX_VOMM_DEPTH

(***************************************************************************)
(* The invalidation sweep (core/model_utils.c) with every outcome of       *)
(* stat().  remove_invalid_exe calls preload_exe_free on the exe that      *)
(* preload_state_unregister_exe has just freed: the second free is         *)
(* undefined, the process aborts in the allocator or goes on.              *)
(***************************************************************************)
FileStatuses == {"regular", "replaced", "gone", "not_regular", "stat_error"}

\* preload_validate_exe: -1 gone or not a regular file, 1 replaced, 0 valid.
preload_validate_exe(status, last_inode, last_mtime) ==
  CASE status = "gone" -> -1
    [] status = "stat_error" -> 0
    [] status = "not_regular" -> -1
    [] status = "replaced" -> IF last_inode # 0 \/ last_mtime # 0 THEN 1 ELSE 0
    [] OTHER -> 0

\* The paths check_exe_validity marks: preload_validate_exe (exe->path, 0, 0) == -1.
InvalidPaths(stat) ==
  {p \in DOMAIN stat : preload_validate_exe(stat[p], 0, 0) = -1}

\* remove_invalid_exe over ctx.exes_to_remove, counting in ctx.removed_count.
RECURSIVE SweepRemove(_, _)
SweepRemove(C, rm) ==
  IF rm = <<>> THEN C
  ELSE Bind(IF ExesLookup(C.S, C.S.exeHeap[Head(rm)].path) = NULL THEN C
            ELSE [S |-> preload_state_unregister_exe(C.S, Head(rm)),
                  removed_count |-> C.removed_count + 1],
            LAMBDA C1 : SweepRemove(C1, Tail(rm)))

preload_cleanup_invalid_entries(S, stat, ub) ==
  LET rm == ExesToRemove(S, InvalidPaths(stat))
  IN IF rm = <<>> THEN [S |-> S, removed_count |-> 0, crashed |-> FALSE]
     ELSE IF ub = "crash"
       THEN [S |-> preload_state_unregister_exe(S, Head(rm)),
             removed_count |-> 0, crashed |-> TRUE]
     ELSE Bind(SweepRemove([S |-> S, removed_count |-> 0], rm), LAMBDA C :
            [S |-> C.S, removed_count |-> C.removed_count, crashed |-> FALSE])

(***************************************************************************)
(* SpecSweep: three registered exes with their edges; running bits flip    *)
(* and the sweep runs with any stat() outcome for each path.               *)
(***************************************************************************)
NoSweep == [swept |-> FALSE, before |-> {}, path_of |-> <<>>, running |-> {},
            stat |-> <<>>, removed_count |-> 0, freed_again |-> {}]

\* The exes remove_invalid_exe hands to preload_exe_free after
\* preload_state_unregister_exe has freed them: the first one when the process
\* ends there, every removed one when it goes on.
FreedAgain(S, stat, ub) ==
  LET rm == ExesToRemove(S, InvalidPaths(stat))
  IN IF rm = <<>> THEN {}
     ELSE IF ub = "crash" THEN {Head(rm)}
     ELSE Range(rm)

SweepStore ==
  LET S1 == MakeExe(TestStore(2, 1), "/bin/a", "idle")
      S2 == preload_exe_new(S1, "/bin/b", FALSE)
      S3 == preload_state_register_exe(S2, Len(S2.exeHeap), TRUE)
      S4 == preload_exe_new(S3, "/bin/c", FALSE)
  IN preload_state_register_exe(S4, Len(S4.exeHeap), TRUE)

SweepInit ==
  /\ StoreIs(SweepStore) /\ IdleDaemon /\ pc = "sweep" /\ ra = <<>>
  /\ aux = NoSweep

SweepFlip ==
  /\ pc = "sweep"
  /\ \E e \in exes :
       exeHeap' = [exeHeap EXCEPT ![e].running_timestamp =
                     IF exe_is_running(Cur, e) THEN -1 ELSE last_running_timestamp]
  /\ aux' = NoSweep
  /\ UNCHANGED <<time, last_running_timestamp, last_accounting_timestamp,
                 markovHeap, mapHeap, exes, maps, maps_arr, exe_seq, map_seq,
                 daemonVars, pc, ra>>

SweepRun ==
  /\ pc = "sweep"
  /\ \E stat \in [{exeHeap[e].path : e \in exes} -> FileStatuses] :
       \E ub \in IF ExesToRemove(Cur, InvalidPaths(stat)) = <<>> THEN {"miss"} ELSE UbOutcomes :
         \E R \in {preload_cleanup_invalid_entries(Cur, stat, ub)} :
           /\ Assign(R.S)
           /\ pc' = IF R.crashed THEN "crashed" ELSE "sweep"
           /\ aux' = [swept |-> TRUE, before |-> exes,
                      path_of |-> [e \in exes |-> exeHeap[e].path],
                      running |-> {e \in exes : exe_is_running(Cur, e)},
                      stat |-> stat, removed_count |-> R.removed_count,
                      freed_again |-> FreedAgain(Cur, stat, ub)]
  /\ UNCHANGED <<daemonVars, ra>>

SweepNext == SweepFlip \/ SweepRun

SpecSweep == SweepInit /\ [][SweepNext]_vars

(* C14: preload_cleanup_invalid_entries returns having unregistered exactly  *)
(* the registered exes that are not running and whose path no longer exists  *)
(* (ENOENT/ENOTDIR) or is not a regular file; running exes, exes whose file  *)
(* still exists (even if replaced) and exes whose stat fails with another    *)
(* error stay registered; the return value is the decrease of the exe count. *)
SweepRemovesExactlyInvalid ==
  aux.swept =>
    /\ pc # "crashed"
    /\ exes = {e \in aux.before :
                 \/ e \in aux.running
                 \/ aux.stat[aux.path_of[e]] \notin {"gone", "not_regular"}}
    /\ aux.removed_count = Cardinality(aux.before) - Cardinality(exes)

(***************************************************************************)
(* SpecLoad: the daemon starts on a state file that an earlier run wrote   *)
(* and that has since been damaged in one place (or not at all).           *)
(***************************************************************************)
\* The model an earlier run saved: two exes with their maps and their edge.
LoadStore ==
  NewExeWithMaps(NewExeWithMaps(TestStore(2, 2), "/bin/a", FALSE, FALSE),
                 "/bin/b", FALSE, TRUE)

GoodFile == write_state(LoadStore, {[path |-> "/bin/z", size |-> 1]})

DropLine(f, i) == SubSeq(f, 1, i - 1) \o SubSeq(f, i + 1, Len(f))
DupLine(f, i) == SubSeq(f, 1, i) \o SubSeq(f, i, Len(f))
\* The same object once more under another seq.
DupObject(f, i) ==
  SubSeq(f, 1, i) \o <<[f[i] EXCEPT !.seq = @ + 10]>> \o SubSeq(f, i + 1, Len(f))
JunkTag(f, i) == [f EXCEPT ![i].tag = "JUNK"]

ObjectLines(f) == {i \in DOMAIN f : f[i].tag \in {"MAP", "EXE"}}

LoadFiles ==
  {[kind |-> "good", file |-> GoodFile], [kind |-> "missing", file |-> <<>>]}
    \cup {[kind |-> "good", file |-> DropLine(GoodFile, i)] :
            i \in (DOMAIN GoodFile \ ObjectLines(GoodFile)) \ {1}}
    \cup {[kind |-> "corrupt", file |-> JunkTag(GoodFile, i)] : i \in DOMAIN GoodFile}
    \cup {[kind |-> "corrupt", file |-> DupLine(GoodFile, 1)]}
    \cup {[kind |-> "duplicate", file |-> DupLine(GoodFile, i)] : i \in ObjectLines(GoodFile)}
    \cup {[kind |-> "duplicate", file |-> DupObject(GoodFile, i)] : i \in ObjectLines(GoodFile)}
    \cup {[kind |-> "unknown_seq", file |-> DropLine(GoodFile, i)] : i \in ObjectLines(GoodFile)}
    \cup {[kind |-> "version", file |-> [GoodFile EXCEPT ![1].version = v]] :
            v \in {"OLDER", "NEWER"}}

LoadInit ==
  /\ StoreIs(EmptyStore)
  /\ bad_exes = {} /\ running_exes = <<>> /\ dirty = FALSE /\ model_dirty = FALSE
  /\ state_changed_exes = <<>> /\ new_exes = {}
  /\ cycle \in Cycles
  /\ pc = "boot"
  /\ ra = <<>>
  /\ \E f \in LoadFiles, c \in Conventions :
       /\ statefile = f.file
       /\ aux = [convention |-> c, restarts |-> 0, kind |-> f.kind]

SpecLoad == LoadInit /\ [][DaemonRestart]_vars

(* C15: when preload_state_load meets a state file that is syntactically     *)
(* corrupt, contains a duplicate identity or object, references an unknown   *)
(* seq, or carries a different major version, the daemon keeps running and   *)
(* starts from an empty model: no exe, map or markov edge of the file is     *)
(* loaded.                                                                   *)
StateFileErrorsRecovered ==
  (pc # "boot" /\ aux.kind \in {"corrupt", "duplicate", "unknown_seq", "version"}) =>
    /\ pc = "tick"
    /\ exes = {} /\ maps = {} /\ maps_arr = <<>>
    /\ LiveExes(Cur) = {} /\ LiveMarkovs(Cur) = {} /\ LiveMaps(Cur) = {}

(* C16: after preload_state_load returns, every loaded markov edge's state   *)
(* equals (is_running(a) ? 1 : 0) | (is_running(b) ? 2 : 0) evaluated on the *)
(* running bits the load established (the exes proc_foreach reported at load *)
(* time are running).                                                        *)
LoadedEdgeStateMatches ==
  (pc = "tick" /\ aux.restarts > 0) =>
    \A m \in LiveMarkovs(Cur) :
      markovHeap[m].state
        = markov_compute_state(Cur, markovHeap[m].a, markovHeap[m].b)

(***************************************************************************)
(* preload_state_save with the outcomes of its file operations.  The disk  *)
(* holds the state file and perhaps a temp file "<statefile>.tmp".         *)
(*                                                                         *)
(* write_state writes through a buffered GIOChannel and never flushes it:  *)
(* the last buffer reaches the file when g_io_channel_unref drops the      *)
(* channel, and an error of that write is reported to nobody.              *)
(***************************************************************************)
MaxSaves == 2

SaveOutcomes ==
  {"ok", "open_fail", "unlink_fail", "write_fail", "flush_lost_all",
   "flush_lost_tail", "rename_fail"}

\* unlink of a stale temp file can only fail when there is one.
IoOutcomes(tmp) ==
  IF tmp = "stale" THEN SaveOutcomes ELSE SaveOutcomes \ {"unlink_fail"}

\* What the temp file holds when the last buffer was not written.
FlushedPart(content, io) ==
  IF io = "flush_lost_all" THEN <<>>
  ELSE SubSeq(content, 1, Len(content) - 1)

\* preload_state_write_file: [statefile, tmp, errmsg] of the disk afterwards.
preload_state_write_file(S, bads, file, tmp, io) ==
  IF io = "unlink_fail"
  THEN [statefile |-> file, tmp |-> tmp, errmsg |-> "cannot open for writing"]
  ELSE IF io = "open_fail"
  THEN [statefile |-> file, tmp |-> "absent", errmsg |-> "cannot open for writing"]
  ELSE IF io = "write_fail"
  THEN [statefile |-> file, tmp |-> "absent", errmsg |-> "write error"]
  ELSE IF io = "rename_fail"
  THEN [statefile |-> file, tmp |-> "absent", errmsg |-> "failed to rename"]
  ELSE IF io \in {"flush_lost_all", "flush_lost_tail"}
  THEN [statefile |-> FlushedPart(write_state(S, bads), io), tmp |-> "absent", errmsg |-> ""]
  ELSE [statefile |-> write_state(S, bads), tmp |-> "absent", errmsg |-> ""]

\* The drain of state->bad_exes (g_hash_table_foreach_remove with true_func).
DrainBadExes_keep(bads) == bads

DrainBadExes(bads) == {}

\* preload_state_save: write when dirty, the invalidation sweep, the drain.
preload_state_save(S, bads, is_dirty, file, tmp, io, gone, ub) ==
  LET w == IF is_dirty THEN preload_state_write_file(S, bads, file, tmp, io)
           ELSE [statefile |-> file, tmp |-> tmp, errmsg |-> ""]
      stat == [p \in {S.exeHeap[e].path : e \in S.exes} |->
                 IF p \in gone THEN "gone" ELSE "regular"]
  IN Bind(preload_cleanup_invalid_entries(S, stat, ub), LAMBDA R :
       [S |-> R.S,
        bads |-> IF R.crashed THEN bads ELSE DrainBadExes(bads),
        dirty |-> is_dirty /\ w.errmsg # "",
        statefile |-> w.statefile, tmp |-> w.tmp, errmsg |-> w.errmsg,
        wrote |-> is_dirty, swept |-> TRUE, rejected |-> bads, crashed |-> R.crashed])

(***************************************************************************)
(* SpecSave: the daemon of SpecDaemon with saves whose file operations can *)
(* fail, started with or without a stale temp file on the disk.            *)
(***************************************************************************)
SaveInit ==
  /\ StoreIs(EmptyStore)
  /\ bad_exes = {} /\ running_exes = <<>> /\ dirty = FALSE /\ model_dirty = FALSE
  /\ state_changed_exes = <<>> /\ new_exes = {}
  /\ cycle \in Cycles
  /\ statefile = <<>>
  /\ pc = "tick"
  /\ ra = <<>>
  /\ \E tmp \in {"absent", "stale"}, c \in Conventions :
       aux = [convention |-> c, restarts |-> 0, saves |-> 0, tmp |-> tmp,
              io |-> "ok", errmsg |-> "", wrote |-> FALSE, swept |-> FALSE,
              rejected |-> {}]

SaveRun ==
  /\ pc \in {"tick", "tick2"}
  /\ aux.saves < MaxSaves
  /\ \E io \in IF dirty THEN IoOutcomes(aux.tmp) ELSE {"ok"} :
       \E gone \in SUBSET {exeHeap[e].path : e \in {x \in exes : ~exe_is_running(Cur, x)}} :
         \E ub \in IF gone = {} THEN {"miss"} ELSE UbOutcomes :
           \E R \in {preload_state_save(Cur, bad_exes, dirty, statefile, aux.tmp,
                                        io, gone, ub)} :
             /\ Assign(R.S)
             /\ bad_exes' = R.bads
             /\ dirty' = R.dirty
             /\ statefile' = R.statefile
             /\ pc' = IF R.crashed THEN "crashed" ELSE pc
             /\ aux' = [aux EXCEPT !.saves = @ + 1, !.tmp = R.tmp, !.io = io,
                                   !.errmsg = R.errmsg, !.wrote = R.wrote,
                                   !.swept = R.swept, !.rejected = R.rejected]
  /\ UNCHANGED <<running_exes, model_dirty, state_changed_exes, new_exes, cycle, ra>>

SaveNext ==
  \/ DaemonTick
  \/ DaemonTick2
  \/ SaveRun

SpecSave == SaveInit /\ [][SaveNext]_vars

\* A step that is one call of preload_state_save.
SaveStep == aux'.saves = aux.saves + 1

(* C17: if opening the temp file, writing any record, or the rename fails,   *)
(* the previously saved state file is left unchanged (never replaced by      *)
(* partial content), the temp file does not remain, the error message is     *)
(* returned and state.dirty stays TRUE; dirty becomes FALSE only when the    *)
(* whole file was written and renamed.                                       *)
SaveIsAtomic ==
  /\ [][(SaveStep /\ dirty /\ aux'.io # "ok") =>
          /\ statefile' = statefile
          /\ aux'.tmp = "absent"
          /\ aux'.errmsg # ""
          /\ dirty']_vars
  /\ [][(dirty /\ ~dirty') => statefile' = write_state(Cur, bad_exes)]_vars

\* What the next scan does with a process of `path`: the paths it queues on new_exes.
QueuedByScan(S, running, bads, path) ==
  preload_spy_scan(S, running, bads, <<path>>).new_exes

(* C18: after a successful save, by the time preload_state_save returns the  *)
(* invalidation sweep has been invoked and the bad_exes table is empty, so   *)
(* every previously rejected path is queued for inspection again the next    *)
(* time a scan sees it running.                                              *)
SaveDrainsBadExes ==
  [][(SaveStep /\ aux'.wrote /\ aux'.errmsg = "" /\ pc' # "crashed") =>
       /\ aux'.swept
       /\ bad_exes' = {}
       /\ \A bad \in aux'.rejected :
            bad.path \in QueuedByScan(Cur', running_exes', bad_exes', bad.path)]_vars

\* A save that wrote the file has returned and has drained a rejected path.
SaveDrainsWitness ==
  /\ aux.saves > 0 /\ aux.wrote /\ aux.errmsg = "" /\ aux.io = "ok"
  /\ pc # "crashed"
  /\ aux.rejected # {}
  /\ bad_exes = {}

(***************************************************************************)
(* Signals (daemon/preload.c).  set_sig_handlers installs sig_handler for  *)
(* SIGINT, SIGQUIT, SIGTERM, SIGHUP, SIGUSR1 and SIGUSR2.  sig_handler     *)
(* calls g_timeout_add (0, sig_handler_sync, sig) from signal context;     *)
(* sig_handler_sync runs on the main loop.  g_timeout_add allocates and    *)
(* takes the lock of the main context and is not async-signal-safe: when   *)
(* the signal interrupts the main thread inside the allocator or under     *)
(* that lock, the handler blocks on a lock its own thread holds, or it     *)
(* goes through.  After g_main_loop_run has returned main calls            *)
(* preload_state_save, then preload_state_free when debugging, then        *)
(* preload_context_free.                                                   *)
(***************************************************************************)
MaxSignals == 2
MaxSigTime == 2

ExitSignals == {"SIGINT", "SIGQUIT", "SIGTERM"}

Signals == ExitSignals \cup {"SIGHUP", "SIGUSR1", "SIGUSR2"}

\* What g_timeout_add does when called from the handler.
SignalOutcomes == {"queued", "deadlock"}

\* The positions of main at which the process is alive.
LivePcs == {"tick", "tick2", "returned", "saved"}

SigInit ==
  /\ StoreIs(EmptyStore)
  /\ bad_exes = {} /\ running_exes = <<>> /\ dirty = FALSE /\ model_dirty = FALSE
  /\ state_changed_exes = <<>> /\ new_exes = {}
  /\ cycle \in Cycles
  /\ statefile = <<>>
  /\ pc = "tick"
  /\ ra = <<>>
  /\ aux = [convention |-> "path_pid", restarts |-> 0, tmp |-> "absent",
            pending |-> <<>>, sent |-> 0, quit |-> FALSE,
            exit_requested |-> FALSE, final_save |-> FALSE, torn |-> FALSE]

\* sig_handler (sig), in signal context: g_timeout_add (0, sig_handler_sync, sig).
sig_handler ==
  /\ pc \in LivePcs
  /\ aux.sent < MaxSignals
  /\ \E sig \in Signals, outcome \in SignalOutcomes :
       /\ pc' = IF outcome = "deadlock" THEN "hung" ELSE pc
       /\ aux' = [aux EXCEPT !.sent = @ + 1,
                             !.pending = IF outcome = "queued" THEN Append(@, sig) ELSE @,
                             !.exit_requested = @ \/ sig \in ExitSignals]
  /\ UNCHANGED <<storeVars, bad_exes, running_exes, dirty, model_dirty,
                 state_changed_exes, new_exes, cycle, statefile, ra>>

\* One call of preload_state_save (ctx->statefile) from main or from the loop;
\* `after` is the position of main when the call returns.
SaveCalled(after, final) ==
  \E io \in IF dirty THEN IoOutcomes(aux.tmp) ELSE {"ok"} :
    \E gone \in SUBSET {exeHeap[e].path : e \in {x \in exes : ~exe_is_running(Cur, x)}} :
      \E ub \in IF gone = {} THEN {"miss"} ELSE UbOutcomes :
        \E R \in {preload_state_save(Cur, bad_exes, dirty, statefile, aux.tmp,
                                     io, gone, ub)} :
          /\ Assign(R.S)
          /\ bad_exes' = R.bads
          /\ dirty' = R.dirty
          /\ statefile' = R.statefile
          /\ pc' = IF R.crashed THEN "crashed" ELSE after
          /\ aux' = [aux EXCEPT !.tmp = R.tmp,
                                !.pending = IF final THEN @ ELSE Tail(@),
                                !.final_save = final]
          /\ UNCHANGED <<running_exes, model_dirty, state_changed_exes, new_exes,
                         cycle, ra>>

\* sig_handler_sync (sig), dispatched by the main loop as a timeout of 0 ms.
sig_handler_sync ==
  /\ pc \in {"tick", "tick2"}
  /\ aux.pending # <<>>
  /\ LET sig == Head(aux.pending)
     IN IF sig = "SIGHUP"
        THEN \* preload_conf_load, preload_log_reopen
             /\ cycle' \in Cycles
             /\ aux' = [aux EXCEPT !.pending = Tail(@)]
             /\ UNCHANGED <<storeVars, bad_exes, running_exes, dirty, model_dirty,
                            state_changed_exes, new_exes, pc, statefile, ra>>
        ELSE IF sig = "SIGUSR1"
        THEN \* preload_state_dump_log, preload_conf_dump_log
             /\ aux' = [aux EXCEPT !.pending = Tail(@)]
             /\ UNCHANGED <<storeVars, bad_exes, running_exes, dirty, model_dirty,
                            state_changed_exes, new_exes, pc, cycle, statefile, ra>>
        ELSE IF sig = "SIGUSR2"
        THEN SaveCalled(pc, FALSE)
        ELSE \* g_main_loop_quit (ctx->main_loop)
             /\ aux' = [aux EXCEPT !.pending = Tail(@), !.quit = TRUE]
             /\ UNCHANGED <<storeVars, bad_exes, running_exes, dirty, model_dirty,
                            state_changed_exes, new_exes, pc, cycle, statefile, ra>>

\* g_main_loop_run returns once the loop has been told to quit.
LoopReturn ==
  /\ pc \in {"tick", "tick2"}
  /\ aux.quit
  /\ pc' = "returned"
  /\ UNCHANGED <<storeVars, bad_exes, running_exes, dirty, model_dirty,
                 state_changed_exes, new_exes, cycle, statefile, aux, ra>>

\* main, clean up: preload_state_save (ctx->statefile).
FinalSave ==
  /\ pc = "returned"
  /\ SaveCalled("saved", TRUE)

\* main: preload_state_free when debugging, preload_context_free, return.
Teardown ==
  /\ pc = "saved"
  /\ pc' = "exited"
  /\ aux' = [aux EXCEPT !.torn = TRUE]
  /\ \E debugging \in BOOLEAN :
       IF debugging
       THEN /\ Assign([EmptyStore EXCEPT !.time = time])
            /\ bad_exes' = {} /\ running_exes' = <<>>
            /\ state_changed_exes' = <<>> /\ new_exes' = {}
       ELSE UNCHANGED <<storeVars, bad_exes, running_exes, state_changed_exes, new_exes>>
  /\ UNCHANGED <<dirty, model_dirty, cycle, statefile, ra>>

\* The scan and update callbacks of the daemon while the loop runs.
SigTick == time + cycle <= MaxSigTime /\ DaemonTick

SigTick2 == time <= MaxSigTime /\ DaemonTick2

SigNext ==
  \/ SigTick
  \/ SigTick2
  \/ sig_handler
  \/ sig_handler_sync
  \/ LoopReturn
  \/ FinalSave
  \/ Teardown

SpecSignals == SigInit /\ [][SigNext]_vars

\* A step of sig_handler, and a step of a scan/update/predict callback.
HandlerStep == aux'.sent = aux.sent + 1

CallbackStep == pc \in {"tick", "tick2"} /\ pc' \in {"tick", "tick2"} /\ pc' # pc

\* An exit request that the final save has not followed yet is still on its way:
\* its timeout is queued on the running loop, or the loop has been told to quit,
\* or g_main_loop_run has returned and main is about to save.
ExitOnItsWay ==
  \/ pc = "returned"
  \/ /\ pc \in {"tick", "tick2"}
     /\ aux.quit \/ \E i \in 1..Len(aux.pending) : aux.pending[i] \in ExitSignals

(* C19: every exit request (SIGINT, SIGQUIT or SIGTERM) is handled on the    *)
(* event loop, not in the signal handler, and is always followed by a final  *)
(* preload_state_save that runs after the last scan/update/predict callback  *)
(* and before the state is torn down.                                        *)
ExitRequestSaves ==
  /\ [][HandlerStep => /\ aux'.quit = aux.quit
                       /\ UNCHANGED <<storeVars, dirty, statefile, bad_exes>>]_vars
  /\ [](aux.exit_requested /\ ~aux.final_save => ExitOnItsWay)
  /\ [][CallbackStep => ~aux.final_save]_vars
  /\ [](aux.torn => aux.final_save)

(***************************************************************************)
(* The workers of preload_readahead (core/readahead.c).  process_file      *)
(* forks one child per request when maxprocs > 0 and counts it in the      *)
(* static procs; wait_for_children loops on wait () while procs > 0 and    *)
(* decrements procs for every child it reaps.  preload_readahead ends with *)
(* wait_for_children.  A child opens the file, reads ahead, and exits.     *)
(* SIGCHLD is left as the daemon inherited it: when it is ignored the      *)
(* kernel reaps the children itself and wait () fails with ECHILD.         *)
(***************************************************************************)
MaxMaxprocs == 2

Maxprocs == -1..MaxMaxprocs

SigchldDispositions == {"default", "ignored"}

\* while (procs > 0)
WaitCondition_never(procs) == FALSE

WaitCondition(procs) == procs > 0

WorkersInit ==
  /\ StoreIs(EmptyStore) /\ IdleDaemon /\ pc = "call"
  /\ \E files \in {q \in DistinctSeqs(RaRequests, MaxFiles) :
                     \A i \in DOMAIN q : \A j \in DOMAIN q : i # j => q[i] # q[j]},
        strategy \in SortStrategies :
       ra = [input |-> files, files |-> files, sortstrategy |-> strategy,
             missing |-> {}, issued |-> <<>>, processed |-> 0, calls |-> 0]
  /\ \E maxprocs \in Maxprocs, sigchld \in SigchldDispositions :
       aux = [maxprocs |-> maxprocs, sigchld |-> sigchld, procs |-> 0,
              todo |-> <<>>, children |-> <<>>, after_wait |-> "",
              read_here |-> <<>>]

\* preload_readahead up to its first process_file: sort_files and the merge loop
\* decide the requests handed to process_file, in order.
WorkersCall ==
  /\ pc = "call"
  /\ ra' = preload_readahead(ra)
  /\ aux' = [aux EXCEPT !.todo = ra'.issued]
  /\ pc' = "loop"
  /\ UNCHANGED <<storeVars, daemonVars>>

\* if (procs >= maxprocs) wait_for_children ();
PoolFull_never(procs, maxprocs) == FALSE

PoolFull(procs, maxprocs) == procs >= maxprocs

\* if (maxprocs > 0) exit (0), at the end of process_file.
ExitsAfterRead(maxprocs) == maxprocs > 0

\* The next process_file (path, offset, length), up to its fork; after the last
\* one, the wait_for_children that ends preload_readahead.
process_file ==
  /\ pc = "loop"
  /\ IF aux.todo = <<>>
     THEN /\ pc' = "wait"
          /\ aux' = [aux EXCEPT !.after_wait = "returned"]
     ELSE IF PoolFull(aux.procs, aux.maxprocs)
     THEN /\ pc' = "wait"
          /\ aux' = [aux EXCEPT !.after_wait = "fork"]
     ELSE /\ pc' = "fork"
          /\ UNCHANGED aux
  /\ UNCHANGED <<storeVars, daemonVars, ra>>

\* One turn of the loop of wait_for_children: wait () returns the pid of a child
\* that has exited, or fails (ECHILD when no child is left to wait for).
wait_for_children ==
  /\ pc = "wait"
  /\ IF ~WaitCondition(aux.procs)
     THEN /\ pc' = aux.after_wait
          /\ UNCHANGED aux
     ELSE \/ \E c \in DOMAIN aux.children :
               /\ aux.children[c] = "exited"
               /\ aux' = [aux EXCEPT !.children[c] = "waited", !.procs = @ - 1]
               /\ UNCHANGED pc
          \/ /\ \A c \in DOMAIN aux.children : aux.children[c] \in {"waited", "autoreaped"}
             /\ UNCHANGED <<pc, aux>>
  /\ UNCHANGED <<storeVars, daemonVars, ra>>

\* process_file from its fork on: the parent counts the child and returns; a failed
\* fork is ignored; with maxprocs <= 0 the file is read in the daemon itself.
WorkerFork ==
  /\ pc = "fork"
  /\ IF aux.maxprocs > 0
     THEN /\ \E status \in {"child", "failed"} :
               aux' = [aux EXCEPT !.todo = Tail(@),
                                  !.children = IF status = "child"
                                               THEN Append(@, "running") ELSE @,
                                  !.procs = IF status = "child" THEN @ + 1 ELSE @]
          /\ pc' = "loop"
     ELSE /\ aux' = [aux EXCEPT !.todo = Tail(@),
                                !.read_here = Append(@, Head(aux.todo))]
          /\ pc' = IF ExitsAfterRead(aux.maxprocs) THEN "exited" ELSE "loop"
  /\ UNCHANGED <<storeVars, daemonVars, ra>>

\* A child: open, try_readahead_with_fallback, close, exit (0).
WorkerExit ==
  /\ pc \in {"loop", "wait", "fork"}
  /\ \E c \in DOMAIN aux.children :
       /\ aux.children[c] = "running"
       /\ aux' = [aux EXCEPT !.children[c] =
                    IF aux.sigchld = "ignored" THEN "autoreaped" ELSE "exited"]
  /\ UNCHANGED <<storeVars, daemonVars, ra, pc>>

WorkersNext ==
  \/ WorkersCall
  \/ process_file
  \/ wait_for_children
  \/ WorkerFork
  \/ WorkerExit

SpecWorkers == WorkersInit /\ [][WorkersNext]_vars

(* C20: when preload_readahead returns, every worker it forked has been      *)
(* waited for: the count of outstanding children (procs) is 0, for every     *)
(* input and every maxprocs.                                                 *)
WorkersAllReaped ==
  pc = "returned" =>
    /\ aux.procs = 0
    /\ \A c \in DOMAIN aux.children : aux.children[c] = "waited"

\* preload_readahead has returned after it had forked a worker for every request.
WorkersReapedWitness ==
  /\ pc = "returned"
  /\ aux.procs = 0
  /\ Len(aux.children) = MaxFiles
  /\ ra.processed = MaxFiles
  /\ aux.maxprocs = 1

(***************************************************************************)
(* Registration of an exe whose path is already in the table (SpecGraph).  *)
(***************************************************************************)
\* A step of GraphRegister: preload_exe_new has made the object Len(exeHeap) + 1.
RegisterStep == Len(exeHeap') = Len(exeHeap) + 1

(* C21: preload_state_register_exe on an exe whose path is already in the   *)
(* exe table fails and leaves the state unchanged: the existing exe stays    *)
(* registered, exe_seq is not advanced, and no markov edge is created; on    *)
(* success the exe receives seq = previous exe_seq + 1.                      *)
DuplicateRegisterRejected ==
  [][RegisterStep =>
       LET e == Len(exeHeap) + 1
           old == ExesLookup(Cur, exeHeap'[e].path)
       IN IF old # NULL
          THEN /\ exes' = exes
               /\ ExesLookup(Cur', exeHeap'[e].path) = old
               /\ exe_seq' = exe_seq
               /\ markovHeap' = markovHeap
               /\ exeHeap'[e].seq = 0 /\ exeHeap'[e].markovs = <<>>
               /\ \A x \in DOMAIN exeHeap : exeHeap'[x] = exeHeap[x]
               /\ maps' = maps /\ mapHeap' = mapHeap /\ time' = time
          ELSE /\ exes' = exes \cup {e}
               /\ exeHeap'[e].seq = exe_seq + 1
               /\ exe_seq' = exe_seq + 1]_vars

\* A registration has been refused: a live object is not in the table because
\* another exe with its path and edges of its own is.
DuplicateRegisterWitness ==
  \E e \in LiveExes(Cur) \ exes :
    /\ ExesLookup(Cur, exeHeap[e].path) \in exes
    /\ exeHeap[ExesLookup(Cur, exeHeap[e].path)].markovs # <<>>
    /\ exeHeap[e].seq = 0

(***************************************************************************)
(* SpecPairs: from the empty model, new exes are registered as             *)
(* new_exe_callback registers them (preload_exe_new (path, TRUE, exemaps), *)
(* preload_state_register_exe (exe, TRUE)), registered exes are            *)
(* unregistered, and the clock moves.                                      *)
(***************************************************************************)
MaxPairObjs == 4

PairsInit ==
  /\ StoreIs(EmptyStore)
  /\ IdleDaemon /\ pc = "pairs" /\ aux = <<>> /\ ra = <<>>

PairsRegister ==
  /\ Len(exeHeap) < MaxPairObjs
  /\ \E path \in Paths \ {exeHeap[e].path : e \in exes} :
       Assign(preload_state_register_exe(preload_exe_new(Cur, path, TRUE),
                                         Len(exeHeap) + 1, TRUE))
  /\ UNCHANGED <<daemonVars, pc, aux, ra>>

PairsUnregister ==
  /\ \E e \in exes : Assign(preload_state_unregister_exe(Cur, e))
  /\ UNCHANGED <<daemonVars, pc, aux, ra>>

\* state->time moves between two registrations (preload_state_tick, preload_state_tick2).
PairsAdvance ==
  /\ time < MaxTime
  /\ Assign([Cur EXCEPT !.time = @ + 1])
  /\ UNCHANGED <<daemonVars, pc, aux, ra>>

PairsNext ==
  \/ PairsRegister
  \/ PairsUnregister
  \/ PairsAdvance

SpecPairs == PairsInit /\ [][PairsNext]_vars

\* The live edges between a and b, in either order.
EdgesBetween(a, b) ==
  {m \in LiveMarkovs(Cur) : {markovHeap[m].a, markovHeap[m].b} = {a, b}}

(* C22: in a run that starts from an empty model, after any sequence of      *)
(* new-exe registrations with create_markovs = true and exe unregistrations, *)
(* every unordered pair of distinct registered exes has exactly one markov   *)
(* edge, no edge has a == b, and no edge has an unregistered endpoint.       *)
OneEdgePerPair ==
  /\ \A a \in exes : \A b \in exes \ {a} :
       /\ Cardinality(EdgesBetween(a, b)) = 1
       /\ \A m \in EdgesBetween(a, b) :
            /\ Count(exeHeap[a].markovs, m) = 1
            /\ Count(exeHeap[b].markovs, m) = 1
  /\ \A m \in LiveMarkovs(Cur) :
       /\ markovHeap[m].a # markovHeap[m].b
       /\ markovHeap[m].a \in exes
       /\ markovHeap[m].b \in exes
  /\ \A e \in exes : Len(exeHeap[e].markovs) = Cardinality(exes) - 1

\* Three exes are registered after an earlier one was unregistered with its edges.
OneEdgePerPairWitness ==
  /\ Cardinality(exes) = 3
  /\ \E e \in DOMAIN exeHeap : exeHeap[e].freed
  /\ \E m \in DOMAIN markovHeap : markovHeap[m].freed
  /\ Cardinality(LiveMarkovs(Cur)) = 3

(***************************************************************************)
(* SpecClock: the two tick callbacks of handling/state.c with the          *)
(* configuration they read.  preload_state_tick scans when                 *)
(* conf->system.doscan is set, predicts when conf->system.dopredict is     *)
(* set (the prediction changes none of the variables of this model), adds  *)
(* cycle / 2 to state->time and schedules preload_state_tick2, which runs  *)
(* update_model when model_dirty is set, adds (cycle + 1) / 2 and          *)
(* schedules preload_state_tick.  SIGHUP reloads the configuration from    *)
(* the loop (sig_handler_sync), between any two callbacks.                 *)
(*                                                                         *)
(* aux also records what the run has done: the scans and update_models so  *)
(* far, the number of preload_state_tick calls, whether the lists preload_spy_scan allocates (new_exes,            *)
(* state_changed_exes) are held or released, and state->time and the       *)
(* cycle at the last preload_state_tick.                                   *)
(***************************************************************************)
MaxCycle == 3
MaxClockTicks == 2
MaxReloads == 1

ClockCycles == 0..MaxCycle

\* conf->model.cycle / 2 and (conf->model.cycle + 1) / 2
HalfCycle(c) == c \div 2

OtherHalfCycle_floor(c) == c \div 2

OtherHalfCycle(c) == (c + 1) \div 2

ClockInit ==
  /\ StoreIs(EmptyStore)
  /\ bad_exes = {} /\ running_exes = <<>> /\ dirty = FALSE /\ model_dirty = FALSE
  /\ state_changed_exes = <<>> /\ new_exes = {}
  /\ cycle \in ClockCycles
  /\ statefile = <<>>
  /\ pc = "tick"
  /\ ra = <<>>
  /\ \E doscan \in BOOLEAN :
       aux = [convention |-> "path_pid", restarts |-> 0,
              doscan |-> doscan, ticks |-> 0, reloads |-> 0,
              scans |-> 0, updates |-> 0, lists |-> "none",
              leaked |-> FALSE, released_twice |-> FALSE,
              tick_time |-> 0, tick_cycle |-> cycle]

\* preload_state_tick
preload_state_tick ==
  /\ pc = "tick"
  /\ aux.ticks < MaxClockTicks
  /\ pc' = "tick2"
  /\ IF aux.doscan
     THEN /\ \E reports \in ScanReports :
               \E D \in {preload_spy_scan(Cur, running_exes, bad_exes, reports)} :
                 /\ Assign([D.S EXCEPT !.time = @ + HalfCycle(cycle)])
                 /\ running_exes' = D.new_running
                 /\ state_changed_exes' = D.state_changed
                 /\ new_exes' = D.new_exes
          /\ dirty' = TRUE
          /\ model_dirty' = TRUE
          /\ aux' = [aux EXCEPT !.ticks = @ + 1, !.scans = @ + 1,
                                !.leaked = @ \/ aux.lists = "allocated",
                                !.lists = "allocated",
                                !.tick_time = time, !.tick_cycle = cycle]
     ELSE /\ Assign([Cur EXCEPT !.time = @ + HalfCycle(cycle)])
          /\ aux' = [aux EXCEPT !.ticks = @ + 1, !.tick_time = time, !.tick_cycle = cycle]
          /\ UNCHANGED <<running_exes, state_changed_exes, new_exes, dirty, model_dirty>>
  /\ UNCHANGED <<bad_exes, cycle, statefile, ra>>

\* state->model_dirty after preload_spy_update_model has run.
ModelDirtyAfterUpdate_kept == TRUE

ModelDirtyAfterUpdate == FALSE

\* preload_state_tick2
preload_state_tick2 ==
  /\ pc = "tick2"
  /\ pc' = "tick"
  /\ IF model_dirty
     THEN /\ RoomFor(new_exes)
          /\ \E outcome \in [new_exes -> ProcOutcomes] :
               \E U \in {preload_spy_update_model(Cur, running_exes, bad_exes,
                           new_exes, state_changed_exes, outcome)} :
                 /\ Assign([U.S EXCEPT !.time = @ + OtherHalfCycle(cycle)])
                 /\ running_exes' = U.running
                 /\ bad_exes' = U.bads
          /\ state_changed_exes' = <<>>
          /\ new_exes' = {}
          /\ aux' = [aux EXCEPT !.updates = @ + 1,
                                !.released_twice = @ \/ aux.lists # "allocated",
                                !.lists = "released"]
     ELSE /\ Assign([Cur EXCEPT !.time = @ + OtherHalfCycle(cycle)])
          /\ UNCHANGED <<running_exes, bad_exes, state_changed_exes, new_exes, aux>>
  /\ model_dirty' = (model_dirty /\ ModelDirtyAfterUpdate)
  /\ UNCHANGED <<dirty, cycle, statefile, ra>>

\* sig_handler_sync (SIGHUP): preload_conf_load (ctx->conffile, FALSE) puts the
\* values of the configuration file in conf.
ClockReload ==
  /\ pc \in {"tick", "tick2"}
  /\ aux.reloads < MaxReloads
  /\ \E c \in ClockCycles, doscan \in BOOLEAN :
       /\ <<c, doscan>> # <<cycle, aux.doscan>>
       /\ cycle' = c
       /\ aux' = [aux EXCEPT !.doscan = doscan, !.reloads = @ + 1]
  /\ UNCHANGED <<storeVars, bad_exes, running_exes, dirty, model_dirty,
                 state_changed_exes, new_exes, statefile, pc, ra>>

ClockNext ==
  \/ preload_state_tick
  \/ preload_state_tick2
  \/ ClockReload

SpecClock == ClockInit /\ [][ClockNext]_vars

\* The steps of the two callbacks.
TickStep == pc = "tick" /\ pc' = "tick2"

Tick2Step == pc = "tick2" /\ pc' = "tick"

\* What the two halves of the claim have in common.
ClockHalves ==
  /\ [][time' >= time]_vars
  /\ [][TickStep => time' = time + (cycle \div 2)]_vars
  /\ [][Tick2Step => time' = time + ((cycle + 1) \div 2)]_vars
  /\ [][(~TickStep /\ ~Tick2Step) => time' = time]_vars

MaxVommCalls == 5

VommSources == {"algorithm/vomm.c", "core/vomm.c"}

\* The children of a node: the nodes one key below it.
VommChildren(V, node) ==
  {k \in DOMAIN V.nodes : Len(k) = Len(node) + 1 /\ SubSeq(k, 1, Len(node)) = node}

RECURSIVE VommSumCounts(_, _)
VommSumCounts(V, ks) ==
  IF ks = {} THEN 0
  ELSE LET k == CHOOSE x \in ks : TRUE
       IN V.nodes[k].count + VommSumCounts(V, ks \ {k})

\* A variant that does not look at whether the exe is running.
VommBiddable_any(V, S, k) == V.nodes[k].exe # NULL

\* if (!child->exe || exe_is_running (child->exe)) continue;
VommBiddable(V, S, k) ==
  V.nodes[k].exe # NULL /\ ~exe_is_running(S, V.nodes[k].exe)

\* predict_ppm (node): the exes it bids on.
predict_ppm(V, S, node) ==
  LET kids == VommChildren(V, node)
  IN IF kids = {} \/ VommSumCounts(V, kids) = 0 THEN {}
     ELSE {V.nodes[k].exe : k \in {x \in kids : VommBiddable(V, S, x)}}

\* predict_dg_fallback (node)
predict_dg_fallback(V, S, node) ==
  {V.nodes[k].exe : k \in {x \in VommChildren(V, node) :
                             VommBiddable(V, S, x) /\ V.nodes[x].count > 0}}

\* predict_global_frequency ()
predict_global_frequency(V, S) ==
  LET grand == UNION {VommChildren(V, c) : c \in VommChildren(V, <<>>)}
  IN IF VommSumCounts(V, grand) = 0 THEN {}
     ELSE {V.nodes[k].exe : k \in {x \in grand :
                                     VommBiddable(V, S, x) /\ V.nodes[x].count > 0}}

\* vomm_predict (): the exes whose lnprob it changes.
vomm_predict(V, S) ==
  IF ~V.root THEN {}
  ELSE LET from_history ==
             UNION {predict_ppm(V, S, <<S.exeHeap[V.history[i]].path>>) :
                      i \in {j \in DOMAIN V.history :
                               /\ <<S.exeHeap[V.history[j]].path>> \in DOMAIN V.nodes
                               /\ VommChildren(V, <<S.exeHeap[V.history[j]].path>>) # {}}}
           ctx == V.current_context
           from_context ==
             IF ctx # NoContext /\ ctx # <<>> /\ VommChildren(V, ctx) # {}
             THEN predict_ppm(V, S, ctx) \cup predict_dg_fallback(V, S, ctx)
             ELSE {}
       IN from_history \cup from_context \cup predict_global_frequency(V, S)

\* vomm_cleanup () of the two sources: the system afterwards, and whether root and
\* history still point to what was freed.
vomm_cleanup(V, source) ==
  IF source = "algorithm/vomm.c"
  THEN [vomm |-> VommZero, dangling |-> FALSE]
  ELSE [vomm |-> V, dangling |-> V.root]

VommLifeStore ==
  MakeExe(MakeExe(MakeExe(TestStore(0, 0), "/bin/a", "idle"), "/bin/b", "idle"),
          "/bin/c", "running")

VommLifeInit ==
  /\ StoreIs(VommLifeStore) /\ IdleDaemon /\ pc = "vomm" /\ ra = <<>>
  /\ \E source \in VommSources :
       aux = [vomm |-> VommZero, source |-> source, life |-> "zero", dangling |-> FALSE,
              calls |-> 0, op |-> "none", bids |-> {}, freed_twice |-> FALSE]

\* A call through root or history after core/vomm.c's vomm_cleanup.
VommUseAfterFree(op) ==
  \E ub \in UbOutcomes :
    /\ pc' = IF ub = "crash" THEN "crashed" ELSE pc
    /\ aux' = [aux EXCEPT !.calls = @ + 1, !.op = op, !.bids = {},
                          !.freed_twice = @ \/ op = "vomm_cleanup"]

VommLifeCallInit ==
  /\ pc = "vomm" /\ aux.calls < MaxVommCalls
  /\ aux.life \in {"zero", "cleaned"}
  /\ aux' = [aux EXCEPT !.vomm = vomm_init(aux.vomm), !.life = "fresh",
                        !.dangling = FALSE, !.calls = @ + 1, !.op = "vomm_init",
                        !.bids = {}]
  /\ UNCHANGED <<storeVars, daemonVars, pc, ra>>

VommLifeUpdate ==
  /\ pc = "vomm" /\ aux.calls < MaxVommCalls
  /\ \E exe \in exes \cup {NULL} :
       IF exe # NULL /\ aux.dangling
       THEN VommUseAfterFree("vomm_update")
       ELSE /\ aux' = [aux EXCEPT !.vomm = vomm_update(aux.vomm, Cur, exe),
                                  !.life = IF exe # NULL /\ @ = "fresh" THEN "trained" ELSE @,
                                  !.calls = @ + 1,
                                  !.op = IF exe = NULL THEN "vomm_update (NULL)"
                                         ELSE "vomm_update",
                                  !.bids = {}]
            /\ UNCHANGED pc
  /\ UNCHANGED <<storeVars, daemonVars, ra>>

VommLifePredict ==
  /\ pc = "vomm" /\ aux.calls < MaxVommCalls
  /\ IF aux.dangling
     THEN VommUseAfterFree("vomm_predict")
     ELSE /\ aux' = [aux EXCEPT !.calls = @ + 1, !.op = "vomm_predict",
                                !.bids = vomm_predict(aux.vomm, Cur)]
          /\ UNCHANGED pc
  /\ UNCHANGED <<storeVars, daemonVars, ra>>

VommLifeCleanup ==
  /\ pc = "vomm" /\ aux.calls < MaxVommCalls
  /\ IF aux.dangling
     THEN VommUseAfterFree("vomm_cleanup")
     ELSE /\ \E R \in {vomm_cleanup(aux.vomm, aux.source)} :
               aux' = [aux EXCEPT !.vomm = R.vomm, !.dangling = R.dangling,
                                  !.life = IF @ = "zero" THEN "zero" ELSE "cleaned",
                                  !.calls = @ + 1, !.op = "vomm_cleanup", !.bids = {}]
          /\ UNCHANGED pc
  /\ UNCHANGED <<storeVars, daemonVars, ra>>

VommLifeNext ==
  \/ VommLifeCallInit
  \/ VommLifeUpdate
  \/ VommLifePredict
  \/ VommLifeCleanup

SpecVommLife == VommLifeInit /\ [][VommLifeNext]_vars

\* A step that is one call of the VOMM interface, and a call that changed nothing.
VommCallStep == aux'.calls = aux.calls + 1

VommCallWasNoOp ==
  /\ pc' = pc
  /\ aux'.vomm = aux.vomm
  /\ aux'.bids = {}
  /\ ~aux'.freed_twice

(* C24: VOMM entry points are safe outside the initialised state:            *)
(* vomm_update(NULL), vomm_update and vomm_predict before vomm_init, and     *)
(* vomm_predict on a tree with no updates change no exe's lnprob and no VOMM *)
(* state; vomm_cleanup called a second time after a cleanup is a no-op       *)
(* (nothing is freed twice).                                                 *)
VommSafeOutsideInit ==
  [][VommCallStep =>
       /\ aux'.op = "vomm_update (NULL)" => VommCallWasNoOp
       /\ (aux.life = "zero" /\ aux'.op \in {"vomm_update", "vomm_predict"})
            => VommCallWasNoOp
       /\ (aux.life = "fresh" /\ aux'.op = "vomm_predict") => VommCallWasNoOp
       /\ (aux.life = "cleaned" /\ aux.op = "vomm_cleanup" /\ aux'.op = "vomm_cleanup")
            => VommCallWasNoOp]_vars

(***************************************************************************)
(* The calls of preload_markov_state_changed that update_model makes,      *)
(* replayed one by one: a call fails its precondition when it goes past    *)
(* the change_timestamp test and finds the stored state equal to the state *)
(* of the endpoints (g_return_if_fail (old_state != new_state)).           *)
(***************************************************************************)
\* One call on edge m in store S.
PreconditionFails(S, m) ==
  LET mk == S.markovHeap[m]
  IN /\ mk.change_timestamp # S.time
     /\ mk.state = markov_compute_state(S, mk.a, mk.b)

\* g_ptr_array_foreach (exe->markovs, preload_markov_state_changed, NULL)
RECURSIVE StateChangedAllFails(_, _)
StateChangedAllFails(S, ms) ==
  IF ms = <<>> THEN FALSE
  ELSE \/ PreconditionFails(S, Head(ms))
       \/ StateChangedAllFails(preload_markov_state_changed(S, Head(ms)), Tail(ms))

\* exe_changed_callback over state_changed_exes
RECURSIVE ExesChangedFails(_, _)
ExesChangedFails(S, changed) ==
  IF changed = <<>> THEN FALSE
  ELSE \/ StateChangedAllFails([S EXCEPT !.exeHeap[Head(changed)].change_timestamp = S.time],
                               S.exeHeap[Head(changed)].markovs)
       \/ ExesChangedFails(exe_changed_callback(S, Head(changed)), Tail(changed))

\* The call at the end of preload_markov_new (a, b, TRUE), for the edges of the exe e
\* that has just been registered: the edge as it was before that call.
BirthFails(S, e) ==
  \E i \in DOMAIN S.exeHeap[e].markovs :
    LET mk == S.markovHeap[S.exeHeap[e].markovs[i]]
        act == S.exeHeap[mk.a].change_timestamp
        bct == S.exeHeap[mk.b].change_timestamp
        ct == BirthTimestamp(act, bct, S.time)
        computed == markov_compute_state(S, mk.a, mk.b)
    IN ct # S.time /\ BirthState(act, bct, ct, computed) = computed

\* g_hash_table_foreach (new_exes, new_exe_callback, data)
RECURSIVE RegisterNewExesFails(_, _, _)
RegisterNewExesFails(U, paths, outcome) ==
  IF paths = <<>> THEN FALSE
  ELSE LET U1 == new_exe_callback(U, Head(paths), outcome[Head(paths)])
       IN \/ outcome[Head(paths)] = "ok" /\ BirthFails(U1.S, Len(U1.S.exeHeap))
          \/ RegisterNewExesFails(U1, Tail(paths), outcome)

\* preload_spy_update_model: some call it makes fails the precondition.
UpdateModelFails(S, running, bads, queued, changed, outcome) ==
  \/ RegisterNewExesFails([S |-> S, running |-> running, bads |-> bads],
                          TableToSeq(queued), outcome)
  \/ ExesChangedFails(RegisterNewExes([S |-> S, running |-> running, bads |-> bads],
                                      TableToSeq(queued), outcome).S, changed)

\* The step is preload_state_tick2 running update_model with these outcomes of
\* proc_get_maps.
UpdateModelRanWith(outcome) ==
  /\ pc = "tick2" /\ model_dirty /\ pc' = "tick"
  /\ LET U == preload_spy_update_model(Cur, running_exes, bad_exes, new_exes,
                SelectSeq(state_changed_exes, LAMBDA e : ~exeHeap[e].freed), outcome)
     IN Cur' = [U.S EXCEPT !.time = @ + ((cycle + 1) \div 2)]

(* C25: the precondition old_state != new_state of                          *)
(* preload_markov_state_changed is never violated: whenever a call made     *)
(* from update_model, or from the construction of an edge when an exe is    *)
(* registered, passes the change_timestamp guard, the stored state of the   *)
(* edge differs from the state computed from the running bits of its        *)
(* endpoints; also when an exe stops and a new exe is found in the same     *)
(* scan and registered before the state changes are applied.                *)
StateChangedPreconditionHolds ==
  [][\A outcome \in [new_exes -> ProcOutcomes] :
       UpdateModelRanWith(outcome) =>
         ~UpdateModelFails(Cur, running_exes, bad_exes, new_exes,
            SelectSeq(state_changed_exes, LAMBDA e : ~exeHeap[e].freed), outcome)]_vars

(***************************************************************************)
(* The model built from nothing: a daemon that starts with no state file   *)
(* and runs preload_state_tick, preload_state_tick2 and the autosave, with *)
(* any cycle from 0 on.  With cycle = 0 state->time stands still.          *)
(***************************************************************************)
MaxModelRounds == 3

ModelCycles == 0..MaxCycle

ModelInit ==
  /\ StoreIs(EmptyStore)
  /\ bad_exes = {} /\ running_exes = <<>> /\ dirty = FALSE /\ model_dirty = FALSE
  /\ state_changed_exes = <<>> /\ new_exes = {}
  /\ cycle \in ModelCycles
  /\ statefile = <<>>
  /\ pc = "tick"
  /\ aux = [convention |-> "path_pid", restarts |-> 0]
  /\ ra = <<>>

\* preload_state_tick, for the rounds the bound allows.
ModelTick == (cycle = 0 \/ time < MaxModelRounds * cycle) /\ DaemonTick

ModelNext ==
  \/ ModelTick
  \/ DaemonTick2
  \/ DaemonSave

SpecModel == ModelInit /\ [][ModelNext]_vars

\* The step is preload_state_tick2 running update_model.
UpdateModelStep == pc = "tick2" /\ model_dirty /\ pc' = "tick" /\ aux' = aux

\* The edges that registered exes hold.
ModelEdges == UNION {Range(exeHeap[e].markovs) : e \in exes}

(* C26: starting from the empty model with cycle >= 1, at the end of every  *)
(* preload_spy_update_model the state of each edge is                       *)
(* (is_running(a) ? 1 : 0) + (is_running(b) ? 2 : 0).                       *)
EdgeStateMatchesEndpoints ==
  [][(UpdateModelStep /\ cycle >= 1) =>
       \A m \in ModelEdges' :
         markovHeap'[m].state = markov_compute_state(Cur', markovHeap'[m].a, markovHeap'[m].b)]_vars

\* An update_model has just run on an edge whose endpoints are not both idle and that
\* has recorded a transition.
EdgeStateMatchesWitness ==
  /\ pc = "tick" /\ ~model_dirty /\ time > 0
  /\ \E m \in ModelEdges :
       /\ markovHeap[m].state \in {1, 2}
       /\ \E i, j \in 0..3 : i # j /\ markovHeap[m].weight[i][j] > 0

\* The step is preload_state_tick scanning with proc_foreach reporting `reports`.
ScanRanWith(reports) ==
  /\ pc = "tick" /\ pc' = "tick2"
  /\ LET D == preload_spy_scan(Cur, running_exes, bad_exes, reports)
     IN /\ Cur' = [D.S EXCEPT !.time = @ + (cycle \div 2)]
        /\ running_exes' = D.new_running
        /\ state_changed_exes' = D.state_changed
        /\ new_exes' = D.new_exes

\* The registered exes among the paths of a report.
ReportedExes(reports) ==
  {e \in exes : \E i \in DOMAIN reports : exeHeap[e].path = reports[i]}

(* C27: after every preload_spy_scan, state.running_exes contains exactly   *)
(* the registered exes for which is_running holds (those reported by        *)
(* proc_foreach in this scan), each exactly once, and                       *)
(* state.last_running_timestamp equals state.time; also when the same exe   *)
(* path is reported for several processes and for exes added to             *)
(* running_exes by the previous update_model.                               *)
RunningExesAfterScan ==
  [][\A reports \in ScanReports :
       ScanRanWith(reports) =>
         /\ Range(running_exes') = {e \in exes' : exe_is_running(Cur', e)}
         /\ Range(running_exes') = ReportedExes(reports)
         /\ \A e \in Range(running_exes') : Count(running_exes', e) = 1
         /\ last_running_timestamp' = time]_vars

\* The same, with the exes of the report named as the running ones only for a scan
\* at a state->time later than the last_running_timestamp it finds.
RunningExesAfterLaterScan ==
  [][\A reports \in ScanReports :
       ScanRanWith(reports) =>
         /\ Range(running_exes') = {e \in exes' : exe_is_running(Cur', e)}
         /\ time > last_running_timestamp => Range(running_exes') = ReportedExes(reports)
         /\ \A e \in Range(running_exes') : Count(running_exes', e) = 1
         /\ last_running_timestamp' = time]_vars

\* A scan has just ended with one registered exe still running and another stopped.
RunningExesAfterScanWitness ==
  /\ pc = "tick2" /\ model_dirty
  /\ Cardinality(exes) = 2
  /\ Len(running_exes) = 1 /\ Len(state_changed_exes) = 1
  /\ running_exes[1] # state_changed_exes[1]
  /\ ~exe_is_running(Cur, state_changed_exes[1])
  /\ last_running_timestamp > 0

(* C28: an already-registered exe is placed on state_changed_exes by a scan *)
(* if and only if its running bit after the scan differs from its running  *)
(* bit before the scan, and then exactly once; in the following            *)
(* update_model each such exe gets change_timestamp = state.time and        *)
(* preload_markov_state_changed is invoked on every edge in its markovs     *)
(* list, and no other previously registered exe's change_timestamp is       *)
(* modified.                                                                *)
StateChangedExesHandled ==
  /\ [][\A reports \in ScanReports :
          ScanRanWith(reports) =>
            \A e \in exes :
              Count(state_changed_exes', e) =
                IF exe_is_running(Cur, e) # exe_is_running(Cur', e) THEN 1 ELSE 0]_vars
  /\ [][UpdateModelStep =>
          /\ \A e \in Range(state_changed_exes) :
               /\ e \in exes /\ ~exeHeap[e].freed
               /\ exeHeap'[e].change_timestamp = time
               /\ \A i \in DOMAIN exeHeap[e].markovs :
                    markovHeap'[exeHeap[e].markovs[i]].change_timestamp = time
          /\ \A e \in exes \ Range(state_changed_exes) :
               exeHeap'[e].change_timestamp = exeHeap[e].change_timestamp]_vars

\* What update_model's accounting adds: state->time - state->last_accounting_timestamp
\* at the call.
AccountingPeriod == time - last_accounting_timestamp

\* The time of an object before the step; an object the step creates starts at 0.
EdgeTimeBefore(m) == IF m \in DOMAIN markovHeap THEN markovHeap[m].time ELSE 0

ExeTimeBefore(e) == IF e \in DOMAIN exeHeap THEN exeHeap[e].time ELSE 0

(* C29: accounting consistency: at every accounting step of update_model a  *)
(* markov edge accrues the period if and only if both of its endpoints      *)
(* accrue it (edge.state == 3 exactly when both endpoints are running),     *)
(* each edge accrues it at most once per step, and so in every reachable    *)
(* state edge.time <= min(a.time, b.time),                                  *)
(* a.time + b.time - edge.time <= state.time and exe.time <= state.time.    *)
AccountingConsistent ==
  /\ [][UpdateModelStep =>
          /\ \A e \in exes' :
               exeHeap'[e].time = ExeTimeBefore(e)
                 + (IF exe_is_running(Cur', e) THEN AccountingPeriod ELSE 0)
          /\ \A m \in ModelEdges' :
               LET mk == markovHeap'[m]
                   both == exe_is_running(Cur', mk.a) /\ exe_is_running(Cur', mk.b)
               IN /\ (mk.state = 3) = both
                  /\ mk.time = EdgeTimeBefore(m) + (IF both THEN AccountingPeriod ELSE 0)]_vars
  /\ [](\A m \in ModelEdges :
          LET mk == markovHeap[m]
          IN /\ mk.time <= exeHeap[mk.a].time
             /\ mk.time <= exeHeap[mk.b].time
             /\ exeHeap[mk.a].time + exeHeap[mk.b].time - mk.time <= time)
  /\ [](\A e \in exes : exeHeap[e].time <= time)

(* C31: vomm_predict never changes the lnprob of an exe that is currently   *)
(* running, in any of its three layers, and changes nothing except          *)
(* exe.lnprob fields: the context tree, all counts, current_context and the *)
(* history are left unchanged.                                              *)
PredictSkipsRunning ==
  [][(VommCallStep /\ aux'.op = "vomm_predict" /\ ~aux.dangling) =>
       /\ \A e \in aux'.bids : e \in exes /\ ~exe_is_running(Cur, e)
       /\ aux'.vomm = aux.vomm
       /\ Cur' = Cur /\ pc' = pc]_vars

\* vomm_predict has just bid on an exe while a running exe was a candidate of the
\* same context.
PredictSkipsRunningWitness ==
  /\ aux.op = "vomm_predict" /\ aux.bids # {}
  /\ \E k \in DOMAIN aux.vomm.nodes :
       /\ Len(k) = 2 /\ aux.vomm.nodes[k].count > 0
       /\ aux.vomm.nodes[k].exe # NULL /\ exe_is_running(Cur, aux.vomm.nodes[k].exe)
       /\ \E k2 \in VommChildren(aux.vomm, SubSeq(k, 1, 1)) :
            aux.vomm.nodes[k2].exe \in aux.bids

(***************************************************************************)
(* The start of the daemon on a state file: preload_state_load, then       *)
(* preload_state_run with the VOMM algorithm, which initialises the tree   *)
(* and hydrates it from the edges just loaded.  The files are what         *)
(* preload_state_write_file wrote for two exes and their edge, as written  *)
(* or with the MARKOV record once more, once more with a and b exchanged,  *)
(* or naming one exe twice.                                                *)
(***************************************************************************)
MaxHydrateWeight == 2
MaxHydrateUpdates == 2

\* dst_node->count += count
HydrateCount(old, count) == old + count

\* vomm_hydrate_from_state: one edge of one exe.
HydrateEdge(V, S, exe, m) ==
  LET mk == S.markovHeap[m]
      other == IF mk.a = exe THEN mk.b ELSE mk.a
      count == IF mk.a = exe THEN mk.weight[1][3] ELSE mk.weight[2][3]
      src == S.exeHeap[exe].path
      dst == S.exeHeap[other].path
      with_src == VommChild(V.nodes, <<>>, src, exe)
      with_dst == VommChild(with_src, <<src>>, dst, other)
  IN IF count > 0
     THEN [V EXCEPT !.nodes = [with_dst EXCEPT ![<<src, dst>>].count = HydrateCount(@, count)]]
     ELSE V

RECURSIVE HydrateEdges(_, _, _, _)
HydrateEdges(V, S, exe, ms) ==
  IF ms = <<>> THEN V
  ELSE Bind(HydrateEdge(V, S, exe, Head(ms)),
            LAMBDA V1 : HydrateEdges(V1, S, exe, Tail(ms)))

RECURSIVE HydrateExes(_, _, _)
HydrateExes(V, S, es) ==
  IF es = <<>> THEN V
  ELSE Bind(HydrateEdges(V, S, Head(es), S.exeHeap[Head(es)].markovs),
            LAMBDA V1 : HydrateExes(V1, S, Tail(es)))

vomm_hydrate_from_state(V, S) ==
  IF ~V.root THEN V ELSE HydrateExes(V, S, SetToSeq(S.exes))

\* The model the files are written from: /bin/a, /bin/b and their edge, which has
\* seen /bin/b start beside /bin/a w13 times and /bin/a beside /bin/b w23 times.
HydrateStore(w13, w23) ==
  [LoadStore EXCEPT !.markovHeap[1].weight[1][3] = w13,
                    !.markovHeap[1].weight[2][3] = w23]

MarkovLines(f) == {i \in DOMAIN f : f[i].tag = "MARKOV"}

\* The MARKOV record once more with a and b exchanged (and the weights of the
\* exchanged edge).
SwapLine(f, i) ==
  SubSeq(f, 1, i) \o <<[f[i] EXCEPT !.a = f[i].b, !.b = f[i].a]>> \o SubSeq(f, i + 1, Len(f))

SelfLine(f, i) == [f EXCEPT ![i].b = f[i].a]

HydrateFiles ==
  UNION {LET f == write_state(HydrateStore(w13, w23), {})
         IN {f} \cup {DupLine(f, i) : i \in MarkovLines(f)}
                \cup {SwapLine(f, i) : i \in MarkovLines(f)}
                \cup {SelfLine(f, i) : i \in MarkovLines(f)}
                \cup {DropLine(f, i) : i \in MarkovLines(f)} :
           w13 \in 0..MaxHydrateWeight, w23 \in 0..MaxHydrateWeight}

HydrateInit ==
  /\ StoreIs(EmptyStore)
  /\ bad_exes = {} /\ running_exes = <<>> /\ dirty = FALSE /\ model_dirty = FALSE
  /\ state_changed_exes = <<>> /\ new_exes = {}
  /\ cycle \in Cycles
  /\ pc = "boot"
  /\ ra = <<>>
  /\ statefile \in HydrateFiles
  /\ aux = [vomm |-> VommZero, errmsg |-> "", updates |-> 0, path_of |-> <<>>]

\* preload_state_load (statefile); proc_foreach passes pid and path as
\* set_running_process_callback reads them.
HydrateLoad ==
  /\ pc = "boot"
  /\ \E junk \in JunkOf(statefile) :
       \E r \in {preload_state_read_file(EmptyStore, statefile, junk)} :
         IF r.errmsg # ""
         THEN /\ pc' = "crashed"
              /\ aux' = [aux EXCEPT !.errmsg = r.errmsg]
              /\ UNCHANGED <<storeVars, running_exes>>
         ELSE \E reports \in ScanReports :
                \E L \in {preload_state_load(r, reports)} :
                  /\ Assign(L.S)
                  /\ running_exes' = L.running
                  /\ pc' = "loaded"
                  /\ aux' = [aux EXCEPT !.path_of =
                                [e \in DOMAIN L.S.exeHeap |-> L.S.exeHeap[e].path]]
  /\ UNCHANGED <<bad_exes, dirty, model_dirty, state_changed_exes, new_exes, cycle,
                 statefile, ra>>

\* preload_state_run with the VOMM algorithm: vomm_init, vomm_hydrate_from_state.
HydrateRun ==
  /\ pc = "loaded"
  /\ pc' = "tick"
  /\ aux' = [aux EXCEPT !.vomm = vomm_hydrate_from_state(vomm_init(aux.vomm), Cur)]
  /\ UNCHANGED <<storeVars, daemonVars, ra>>

\* The exes the tree or the history points to.
VommExes(V) ==
  ({V.nodes[n].exe : n \in DOMAIN V.nodes} \cup Range(V.history)) \ {NULL}

\* The model as a read through a dangling pointer finds it when the freed memory
\* has not been reused: the freed exes still show their paths.
StaleView(S) ==
  [S EXCEPT !.exeHeap =
     [e \in DOMAIN S.exeHeap |->
        IF S.exeHeap[e].freed THEN [S.exeHeap[e] EXCEPT !.path = aux.path_of[e]]
        ELSE S.exeHeap[e]]]

\* vomm_update (exe) for an exe the scan sees start (spy.c:59).  The update reads
\* the path of the last exe of the history: when that exe has been freed the read
\* is undefined, it ends the process or finds the old path.
HydrateUpdate ==
  /\ pc \in {"tick", "tick2"}
  /\ aux.updates < MaxHydrateUpdates
  /\ \E exe \in exes :
       \E ub \in IF Range(aux.vomm.history) \subseteq exes THEN {"miss"} ELSE UbOutcomes :
         IF ub = "crash"
         THEN /\ pc' = "crashed"
              /\ UNCHANGED aux
         ELSE /\ pc' = "tick2"
              /\ aux' = [aux EXCEPT !.vomm = vomm_update(aux.vomm, StaleView(Cur), exe),
                                    !.updates = @ + 1]
  /\ UNCHANGED <<storeVars, daemonVars, ra>>

HydrateNext ==
  \/ HydrateLoad
  \/ HydrateRun
  \/ HydrateUpdate
  \/ DaemonSave

SpecHydrate == HydrateInit /\ [][HydrateNext]_vars

(* C35: for every input file, a load that reports no error leaves a model in *)
(* which no markov edge has a == b and no unordered pair of exes has more    *)
(* than one markov edge: MARKOV records naming the same pair twice, in       *)
(* either order, or naming the same exe twice are not accepted silently.     *)
LoadedEdgesDistinct ==
  pc \in {"loaded", "tick"} =>
    /\ \A m \in LiveMarkovs(Cur) : markovHeap[m].a # markovHeap[m].b
    /\ \A a \in exes : \A b \in exes : Cardinality(EdgesBetween(a, b)) <= 1

\* The bigram node root -> x -> y of two registered exes.
Bigram(x, y) == <<exeHeap[x].path, exeHeap[y].path>>

\* What the claim expects of the node for endpoint x of edge m.
HydratedAs(m, x) ==
  LET mk == markovHeap[m]
      y == IF mk.a = x THEN mk.b ELSE mk.a
      w == IF mk.a = x THEN mk.weight[1][3] ELSE mk.weight[2][3]
  IN /\ (Bigram(x, y) \in DOMAIN aux.vomm.nodes) <=> (w > 0)
     /\ w > 0 => aux.vomm.nodes[Bigram(x, y)].count = w

(* C32: after vomm_hydrate_from_state on a freshly initialised tree, for     *)
(* every markov edge and each of its endpoints x with other endpoint y, the  *)
(* bigram node root -> x -> y exists exactly when the edge's weight[1][3]    *)
(* (x is the a endpoint) or weight[2][3] (x is the b endpoint) is positive,  *)
(* and its count equals that weight; current_context and history are as      *)
(* vomm_init left them.                                                      *)
HydrationMatchesWeights ==
  pc = "tick" =>
    /\ \A m \in LiveMarkovs(Cur) :
         /\ HydratedAs(m, markovHeap[m].a)
         /\ HydratedAs(m, markovHeap[m].b)
    /\ aux.vomm.current_context = <<>>
    /\ aux.vomm.history = <<>>
    /\ aux.vomm.history_length = 0

\* The same for the models in which every pair of exes has one edge.
HydrationMatchesSingleEdges ==
  (\A a \in exes : \A b \in exes : Cardinality(EdgesBetween(a, b)) <= 1)
    => HydrationMatchesWeights

\* A hydrated tree with a bigram node.
HydratedSome ==
  /\ pc = "tick"
  /\ \E n \in DOMAIN aux.vomm.nodes : Len(n) = 2 /\ aux.vomm.nodes[n].count > 0
  /\ \A a \in exes : \A b \in exes : Cardinality(EdgesBetween(a, b)) <= 1

\* The workers forked and not yet reaped, by wait () or by the kernel.
Unreaped == {c \in DOMAIN aux.children : aux.children[c] \in {"running", "exited"}}

(* C33: during preload_readahead with maxprocs > 0 the number of forked and  *)
(* not yet reaped workers never exceeds maxprocs; with maxprocs == 0 no      *)
(* worker is forked, the prefetch is performed in the calling process and    *)
(* that process does not exit.                                               *)
WorkerPoolBounded ==
  /\ aux.maxprocs > 0 =>
       /\ Cardinality(Unreaped) <= aux.maxprocs
       /\ aux.procs <= aux.maxprocs
       /\ aux.read_here = <<>>
  /\ aux.maxprocs = 0 =>
       /\ aux.children = <<>> /\ aux.procs = 0
       /\ pc # "exited"
       /\ pc # "call" => aux.read_here \o aux.todo = ra.issued
       /\ pc = "returned" => Len(aux.read_here) = ra.processed

\* The pool is full and the next request waits for it: one worker is out with
\* maxprocs = 1 and process_file has gone into wait_for_children before its fork.
WorkerPoolFullWitness ==
  /\ aux.maxprocs = 1
  /\ Cardinality(Unreaped) = 1
  /\ pc = "wait" /\ aux.after_wait = "fork"
  /\ aux.todo # <<>>

\* Two requests were read in the calling process and preload_readahead returned.
WorkerInlineWitness ==
  /\ aux.maxprocs = 0
  /\ pc = "returned"
  /\ Len(aux.read_here) = MaxFiles

\* The workers under a fair scheduler: the daemon goes on whenever it can, and
\* every worker that is running exits.  The requests are those of one length in
\* the order given.
WorkersFairInit ==
  /\ WorkersInit
  /\ ra.sortstrategy = "SORT_NONE"
  /\ \A i \in DOMAIN ra.input : ra.input[i].length = 1

SpecWorkersFair ==
  /\ WorkersFairInit /\ [][WorkersNext]_vars
  /\ WF_vars(WorkersCall)
  /\ WF_vars(process_file)
  /\ WF_vars(wait_for_children)
  /\ WF_vars(WorkerFork)
  /\ WF_vars(WorkerExit)

(* C34: preload_readahead always terminates: every forked worker exits in    *)
(* the end, and the loop of wait_for_children finishes for every outcome of  *)
(* wait () (a reaped child, or an error return such as EINTR or ECHILD), so  *)
(* the scheduler returns to the event loop.                                  *)
ReadaheadTerminates == <>(pc = "returned")

\* The same when wait () can reap the workers (SIGCHLD has the default disposition).
ReadaheadTerminatesDefault == aux.sigchld = "default" => <>(pc = "returned")

(* C36: the map hash set state.maps and the parallel array state.maps_arr    *)
(* always contain exactly the same map objects, each once, after any         *)
(* sequence of preload_map_ref and preload_map_unref, maps with equal        *)
(* triples included.                                                         *)
MapsAgreeWithArray ==
  /\ Range(maps_arr) = maps
  /\ \A m \in maps : Count(maps_arr, m) = 1

(* C37: every exe object is released exactly once: on the path of the        *)
(* invalidation sweep (remove_invalid_exe) no exe is freed twice and no      *)
(* freed exe is accessed afterwards.                                         *)
ExeReleasedOnce ==
  aux.swept =>
    /\ aux.freed_again = {}
    /\ \A e \in aux.before \ exes : exeHeap[e].freed
    /\ pc # "crashed"

\* The release by preload_state_unregister_exe alone: every exe the sweep took out
\* of the table is freed, with its edges, and its exemaps are gone.
UnregisterReleases ==
  aux.swept =>
    \A e \in aux.before \ exes :
      /\ exeHeap[e].freed
      /\ \A m \in LiveMarkovs(Cur) : markovHeap[m].a # e /\ markovHeap[m].b # e

(* C38: under every interleaving of the callbacks of the event loop (scan    *)
(* tick, update tick, save), each exe on the pending state_changed_exes list *)
(* is still registered and not freed when preload_spy_update_model comes to  *)
(* it: a save whose invalidation sweep runs between a scan and its           *)
(* update_model never unregisters an exe that the scan queued.               *)
PendingExesRegistered ==
  pc = "tick2" =>
    \A i \in DOMAIN state_changed_exes :
      /\ state_changed_exes[i] \in exes
      /\ ~exeHeap[state_changed_exes[i]].freed

(* C39: in every reachable state between vomm_init and vomm_cleanup, every   *)
(* exe referenced by the VOMM history or by a node of the context tree is a  *)
(* currently registered, not freed exe, also after the invalidation sweep    *)
(* has unregistered exes that were fed to vomm_update or hydrated.           *)
VommExesRegistered ==
  (pc \in {"tick", "tick2"} /\ aux.vomm.root) =>
    \A e \in VommExes(aux.vomm) : e \in exes /\ ~exeHeap[e].freed

\* The same while the sweep has removed nothing.
VommExesRegisteredUnswept ==
  (\A e \in DOMAIN exeHeap : ~exeHeap[e].freed) => VommExesRegistered

\* The model that the state file records, without the clock.
ModelVars == <<exeHeap, markovHeap, mapHeap, exes, maps, maps_arr, exe_seq, map_seq>>

(* C40: no model change is lost at exit: whenever the in-memory model has    *)
(* been mutated since the last successful write of the state file (by a      *)
(* scan, by update_model registering exes, applying markov transitions or    *)
(* accruing time, or by the invalidation sweep), state.dirty is TRUE, so     *)
(* that the final preload_state_save on exit writes the file.                *)
NoChangeLostAtExit ==
  [][(ModelVars' # ModelVars /\ pc' # "crashed") => dirty']_vars

\* The part of it for preload_spy_update_model alone.
UpdateModelLeavesDirty ==
  [][(UpdateModelStep /\ ModelVars' # ModelVars) => dirty']_vars

\* The part of it for the scan: preload_state_tick sets dirty after every scan.
ScanLeavesDirty ==
  [][(pc = "tick" /\ pc' = "tick2") => dirty']_vars
====
